---- MODULE Spec2Model ----
(***************************************************************************)
(* The parse-resume edge function: one request travelling through          *)
(* loadResumeInput, job submission, the poll loop and the insert/response  *)
(* of the request handler.  Two deployments of the function are modelled:  *)
(*   flow = "parse"    the LlamaParse markdown function (upload, then poll *)
(*                     job/<id>/result/markdown),                          *)
(*   flow = "extract"  the LlamaExtract function (upload file, create job, *)
(*                     poll the job status, fetch the result).             *)
(* Texts (request bodies, response bodies, messages) are sequences of      *)
(* symbols; a symbol stands for one character of the text.  Time is in     *)
(* milliseconds, as Date.now() gives it.                                   *)
(***************************************************************************)
EXTENDS Integers, Sequences, FiniteSets, TLC

\* ------------------------------------------------------------------ bounds
\* Granularity of the latencies the environment may choose (ms).
TickMs == 2000
\* A remote call takes 0..MaxLatencyTicks ticks.
MaxLatencyTicks == 1
\* How many symbols the long response body exceeds the error limit by.
LongExtra == 1
\* Date.now() when the request arrives.
EpochMs == 1000

\* ------------------------------------------------------- program constants
POLL_INTERVAL_MS == 3000
POLL_MAX_MS == 60000
EXTRACT_INTERVAL_MS == 3000
EXTRACT_MAX_MS == 60000
ERR_BODY_MAX == 400
MAX_TEXT_STORE == 50000

Latencies == { k * TickMs : k \in 0..MaxLatencyTicks }

\* -------------------------------------------------------------- JS values
\* A JavaScript value as far as the code looks at it: its typeof and, for a
\* string, its text.
Undefined == [vt |-> "undefined", val |-> <<>>]
Null == [vt |-> "null", val |-> <<>>]
Str(s) == [vt |-> "string", val |-> s]
Num(s) == [vt |-> "number", val |-> s]

Min(a, b) == IF a < b THEN a ELSE b

\* String.prototype.slice(0, n): the first n characters, all when shorter.
Slice(s, n) == SubSeq(s, 1, Min(n, Len(s)))

\* String.prototype.includes(pat)
Includes(s, pat) ==
    \E i \in 1..(Len(s) - Len(pat) + 1) : SubSeq(s, i, i + Len(pat) - 1) = pat

\* ------------------------------------------------------------------- JSON
\* JSON texts of the grammar  null | {} | {key:"string"} | {key:number};
\* every other text is not JSON.  Inside a string a quote and a backslash
\* are written with a backslash before them.
Q == "\""
Backslash == "\\"
SyntaxError == [t |-> "SyntaxError", key |-> "", f |-> Undefined]
JNull == [t |-> "null", key |-> "", f |-> Undefined]
JObj(k, v) == [t |-> "object", key |-> k, f |-> v]
JEmpty == JObj("", Undefined)

\* The characters of a string as JSON.stringify writes them between quotes.
RECURSIVE Escape(_)
Escape(s) ==
    IF s = <<>> THEN <<>>
    ELSE IF Head(s) \in {Q, Backslash} THEN <<Backslash, Head(s)>> \o Escape(Tail(s))
    ELSE <<Head(s)>> \o Escape(Tail(s))

\* Whether JSON.parse accepts s as the inside of a string: no bare quote, and
\* every backslash followed by a quote or a backslash.
RECURSIVE WellEscaped(_)
WellEscaped(s) ==
    IF s = <<>> THEN TRUE
    ELSE IF Head(s) = Q THEN FALSE
    ELSE IF Head(s) = Backslash
    THEN Len(s) >= 2 /\ s[2] \in {Q, Backslash} /\ WellEscaped(Tail(Tail(s)))
    ELSE WellEscaped(Tail(s))

\* The string JSON.parse reads from the inside of a well-escaped string.
RECURSIVE Unescape(_)
Unescape(s) ==
    IF s = <<>> THEN <<>>
    ELSE IF Head(s) = Backslash THEN <<s[2]>> \o Unescape(Tail(Tail(s)))
    ELSE <<Head(s)>> \o Unescape(Tail(s))

\* JSON.parse(text); SyntaxError stands for the exception it throws.
JSONParse(text) ==
    IF text = <<"null">> THEN JNull
    ELSE IF text = <<"{", "}">> THEN JEmpty
    ELSE IF Len(text) >= 6 /\ text[1] = "{" /\ text[3] = ":" /\ text[4] = Q
            /\ text[Len(text) - 1] = Q /\ text[Len(text)] = "}"
            /\ WellEscaped(SubSeq(text, 5, Len(text) - 2))
         THEN JObj(text[2], Str(Unescape(SubSeq(text, 5, Len(text) - 2))))
    ELSE IF Len(text) = 5 /\ text[1] = "{" /\ text[3] = ":" /\ text[5] = "}"
            /\ text[4] \notin {Q, "{", "}", ":"}
         THEN JObj(text[2], Num(<<text[4]>>))
    ELSE SyntaxError

\* JSON.stringify(value) for a parsed value and for a string.
JSONStringify(j) ==
    IF j.t = "null" THEN <<"null">>
    ELSE IF j.f.vt = "string"
    THEN <<"{", j.key, ":", Q>> \o Escape(j.f.val) \o <<Q, "}">>
    ELSE IF j.f.vt = "number" THEN <<"{", j.key, ":">> \o j.f.val \o <<"}">>
    ELSE <<"{", "}">>
StringifyStr(s) == <<Q>> \o Escape(s) \o <<Q>>

\* json?.name : the property of a parsed value, undefined when absent.
Prop(j, name) == IF j.t = "object" /\ j.key = name THEN j.f ELSE Undefined

\* Response.ok
Ok(status) == status >= 200 /\ status <= 299

\* -------------------------------------------------- texts the remote sends
Words(k, ws) == <<"{", k, ":", Q>> \o ws \o <<Q, "}">>
TxtId == Words("id", <<"J1">>)
TxtEmptyObj == <<"{", "}">>
TxtNull == <<"null">>
TxtGarbage == <<"<html>", "oops">>
TxtLong == [i \in 1..(ERR_BODY_MAX + LongExtra) |-> "x"]
TxtMarkdownJson == Words("markdown", <<"Hello">>)
TxtMarkdownNum == <<"{", "markdown", ":", "5", "}">>
TxtPlain == <<"#", "Hello">>
TxtNotCompleted == Words("detail", <<"Job", " ", "not", " ", "completed", " ", "yet">>)
TxtResultNotFound ==
    Words("detail", <<"Result", " ", "for", " ", "Parsing", " ", "Job", " ", "J1",
                      " ", "not", " ", "found">>)
TxtBadInput == Words("detail", <<"bad", " ", "input">>)
TxtDetailNum == <<"{", "detail", ":", "7", "}">>
TxtSuccess == Words("status", <<"SUCCESS">>)
TxtFailed == Words("status", <<"FAILED">>)
TxtRunning == Words("status", <<"RUNNING">>)
TxtData == Words("data", <<"Jane">>)

\* The two "still processing" substrings of the markdown poll.
JobNotCompletedYet == <<"Job", " ", "not", " ", "completed", " ", "yet">>
ResultForParsingJob == <<"Result", " ", "for", " ", "Parsing", " ", "Job">>


\* ------------------------------------------------------------------ state
VARIABLES
    flow,      \* which function is deployed: "parse" or "extract"
    req,       \* the request body: text, bucket and filePath
    pc,        \* where the request handler stands
    now,       \* Date.now()
    input,     \* the ResumeInput loadResumeInput returned
    fileId,    \* extract: what llamaUploadFile returned
    jobId,     \* what the submission returned
    started,   \* parse: `started`; extract: the time `deadline` was computed
    queries,   \* poll queries issued for the job
    fetches,   \* extract: result fetches issued for the job
    sleeps,    \* interval waits begun
    submits,   \* submission requests sent (upload, job creation)
    seen,      \* what the poll responses so far were like
    result,    \* how the promise of parseResumeWith... settled
    thrown,    \* the error on its way to the handler's catch
    inserted,  \* whether a row was written to the resumes table
    reply,     \* the handler's HTTP response
    downloads, \* storage downloads performed for the request
    row,       \* the raw_text of the row written to the resumes table
    response,  \* web form: what callFunction returned to handleSubmit
    page,      \* web form: the inputs, the submit button, status and result
    jobs       \* two invocations at once: the locals of each one's poll loop

\* The web form's part of the state.
web == <<response, page>>
\* What the function did to storage and to the resumes table.
store == <<downloads, row>>
vars == <<flow, req, pc, now, input, fileId, jobId, started, queries, fetches,
          sleeps, submits, seen, result, thrown, inserted, reply, downloads, row,
          response, page, jobs>>

\* An Error and its message: a fixed prefix and the text put after it.
Error(tag, text) == [tag |-> tag, text |-> text]
NoError == Error("", <<>>)

Pending == [kind |-> "pending", value |-> Undefined, error |-> NoError, at |-> 0]
Fulfilled(v, t) == [kind |-> "fulfilled", value |-> v, error |-> NoError, at |-> t]
Rejected(e, t) == [kind |-> "rejected", value |-> Undefined, error |-> e, at |-> t]

\* A long text is written as its first characters followed by a count of
\* further one-byte characters and a count of further two-byte characters
\* (two bytes in UTF-8, one UTF-16 code unit each); `broken` counts the
\* U+FFFD characters a decoder put for a cut-off sequence.
NoPad == [ascii |-> 0, wide |-> 0]
NoText == [t |-> "undefined", head |-> <<>>, ascii |-> 0, wide |-> 0, broken |-> 0]
NullText == [t |-> "null", head |-> <<>>, ascii |-> 0, wide |-> 0, broken |-> 0]
Text(head, pad) ==
    [t |-> "string", head |-> head, ascii |-> pad.ascii, wide |-> pad.wide, broken |-> 0]
\* String.prototype.length
Chars(x) == Len(x.head) + x.ascii + x.wide + x.broken
\* Uint8Array.prototype.length of TextEncoder.encode(x)
Bytes(x) == Len(x.head) + x.ascii + 2 * x.wide
\* String.prototype.slice(0, n) of a text
SliceChars(x, n) ==
    LET h == Min(Len(x.head), n)
        a == Min(x.ascii, n - h)
        w == Min(x.wide, n - h - a)
    IN  [t |-> "string", head |-> SubSeq(x.head, 1, h), ascii |-> a, wide |-> w,
         broken |-> 0]
\* new TextDecoder().decode(buffer.slice(0, n)): the characters whose bytes
\* are all among the first n, and U+FFFD for one that is cut.
DecodeSlice(x, n) ==
    LET h == Min(Len(x.head), n)
        a == Min(x.ascii, n - h)
        left == n - h - a
        w == Min(x.wide, left \div 2)
    IN  [t |-> "string", head |-> SubSeq(x.head, 1, h), ascii |-> a, wide |-> w,
         broken |-> IF w < x.wide /\ left % 2 = 1 THEN 1 ELSE 0]

NoInput == [buffer |-> <<>>, pad |-> NoPad, filename |-> "", contentType |-> ""]
NoReply == [status |-> 0, error |-> NoError, resumeId |-> Null, parsed |-> Undefined]
NoRow == NoText
\* No second invocation is looked at.
NoJobs == <<>>
NothingSeen == [n |-> 0, first |-> "none", pendings |-> 0,
                onlyNotFound |-> TRUE, onlyRunning |-> TRUE,
                lastResp |-> [status |-> 0, text |-> <<"-">>]]

\* ------------------------------------------------------------ environment
Flows == {"parse", "extract"}
Request(t, b, f) == [text |-> t, bucket |-> b, filePath |-> f, pad |-> NoPad]
\* A request whose text goes on after t with the characters counted in pad.
LongRequest(t, pad) == [text |-> t, bucket |-> FALSE, filePath |-> FALSE, pad |-> pad]
Requests ==
    { Request(Str(<<"Jane">>), FALSE, FALSE), Request(Str(<<"Jane">>), TRUE, TRUE),
      Request(Undefined, TRUE, TRUE), Request(Undefined, FALSE, FALSE),
      Request(Undefined, TRUE, FALSE), Request(Str(<<>>), FALSE, TRUE),
      Request(Str(<<" ", " ">>), FALSE, FALSE), Request(Str(<<" ">>), TRUE, TRUE),
      LongRequest(Str(<<"Jane">>), [ascii |-> MAX_TEXT_STORE + LongExtra, wide |-> 0]),
      LongRequest(Str(<<"Jane">>),
                  [ascii |-> 0, wide |-> MAX_TEXT_STORE \div 2 + LongExtra]) }
StoredFile == [buffer |-> <<"%PDF">>, type |-> "application/pdf", ext |-> "pdf"]
\* The files the bucket holds: a PDF and an image.
StoredFiles ==
    { StoredFile, [buffer |-> <<"PNG">>, type |-> "image/png", ext |-> "png"] }
Statuses == {200, 202, 400, 404, 500}
SubmitBodies == {TxtId, TxtEmptyObj, TxtNull, TxtGarbage, TxtLong}
MarkdownBodies ==
    {TxtMarkdownJson, TxtMarkdownNum, TxtPlain, TxtNotCompleted, TxtResultNotFound,
     TxtBadInput, TxtDetailNum, TxtNull, TxtRunning, TxtLong}
\* fetch() rejecting: no HTTP response at all.
NetworkFailure == [status |-> 0, text |-> <<>>]
Http(s, b) == [status |-> s, text |-> b]
HttpResponses(bodies) ==
    { Http(s, b) : s \in Statuses, b \in bodies } \cup {NetworkFailure}
\* What the remote answers to the submission requests and to the markdown poll
\* while a request runs.
SubmitResponses ==
    { Http(200, TxtId), Http(200, TxtEmptyObj), Http(200, TxtNull), Http(200, TxtGarbage),
      Http(500, TxtLong), Http(400, TxtBadInput), NetworkFailure }
StatusResponses ==
    { Http(200, TxtSuccess), Http(200, TxtFailed), Http(202, TxtRunning),
      Http(200, TxtNull), Http(200, TxtGarbage), Http(404, TxtResultNotFound),
      Http(400, TxtBadInput), Http(500, TxtLong), NetworkFailure }
ResultResponses ==
    { Http(200, TxtData), Http(200, TxtEmptyObj), Http(200, TxtGarbage),
      Http(404, TxtResultNotFound), Http(500, TxtLong), NetworkFailure }
MarkdownResponses ==
    { Http(200, TxtMarkdownJson), Http(200, TxtPlain), Http(202, TxtRunning),
      Http(200, TxtMarkdownNum), Http(200, TxtNull),
      Http(404, TxtResultNotFound), Http(400, TxtNotCompleted),
      Http(400, TxtBadInput), Http(404, TxtGarbage), Http(500, TxtNotCompleted),
      Http(500, TxtLong), NetworkFailure }
FetchFailed == Error("TypeError: fetch failed", <<>>)

\* String.prototype.trim(), whitespace being the symbol " ".
RECURSIVE TrimLeft(_)
TrimLeft(s) == IF s # <<>> /\ Head(s) = " " THEN TrimLeft(Tail(s)) ELSE s
RECURSIVE TrimRight(_)
TrimRight(s) ==
    IF s # <<>> /\ s[Len(s)] = " " THEN TrimRight(SubSeq(s, 1, Len(s) - 1)) ELSE s
Trim(s) == TrimRight(TrimLeft(s))

\* ------------------------------------------- the web form: values it shows
\* The `structured` value of a response as far as the page reads it: its
\* typeof, its text when a string, and of an object the name and the
\* experience items ("titled": an object with a title, "untitled": an object
\* without, "null": null).
SNone == [t |-> "undefined", s |-> <<>>, name |-> <<>>, experience |-> <<>>]
SNull == [t |-> "null", s |-> <<>>, name |-> <<>>, experience |-> <<>>]
SText(s) == [t |-> "string", s |-> s, name |-> <<>>, experience |-> <<>>]
SNumber(s) == [t |-> "number", s |-> s, name |-> <<>>, experience |-> <<>>]
SObj(name, items) == [t |-> "object", s |-> <<>>, name |-> name, experience |-> items]

\* The `parsed` field of a response: absent, null, a string, or an object of
\* which the page reads markdown and structured.
PNone == [t |-> "undefined", s |-> <<>>, markdown |-> Undefined, structured |-> SNone]
PNull == [t |-> "null", s |-> <<>>, markdown |-> Undefined, structured |-> SNone]
PStr(s) == [t |-> "string", s |-> s, markdown |-> Undefined, structured |-> SNone]
PObj(md, st) == [t |-> "object", s |-> <<>>, markdown |-> md, structured |-> st]

\* What showResult is given: the function's response body, or {error: message}.
WResult(p) == [parsed |-> p, error |-> Undefined]
ErrorResult(msg) == [parsed |-> PNone, error |-> Str(msg)]
NoResponse == WResult(PNone)

\* The JSON text of {key: "inner"}.
Wrap(key, inner) == JSONStringify(JObj(key, Str(inner)))

\* Strings a response carries as parsed or as parsed.markdown.
MdPlain == <<"#", " ", "Jane">>
MdQuoted == <<"say", " ", Q, "hi", Q>>
TxtTruncated == <<"{", "markdown", ":", Q, "#">>
WebTexts ==
    { MdPlain, MdQuoted, <<>>,
      Wrap("markdown", MdPlain), Wrap("markdown", MdQuoted), Wrap("markdown", <<>>),
      Wrap("markdown", Wrap("markdown", MdPlain)),
      Wrap("structured", <<"Jane">>), Wrap("structured", <<>>),
      TxtMarkdownNum, TxtData, TxtNull, TxtEmptyObj, TxtGarbage, TxtTruncated }

\* The structured values a response carries.
WebStructured ==
    { SObj(<<"Jane">>, <<>>), SObj(<<"Jane">>, <<"titled", "untitled">>),
      SObj(<<>>, <<"titled">>), SObj(<<>>, <<>>),
      SObj(<<>>, <<"null">>), SObj(<<"Jane">>, <<"titled", "null">>),
      SText(<<"Jane">>), SNull }

\* The response bodies callFunction can return.
WebResults ==
    { WResult(PNone), WResult(PNull), WResult(PObj(Undefined, SNone)) }
    \cup { WResult(PStr(s)) : s \in WebTexts }
    \cup { WResult(PObj(Str(s), SNone)) : s \in WebTexts }
    \cup { WResult(PObj(Num(<<"5">>), SNone)), WResult(PObj(Null, SNone)) }
    \cup { WResult(PObj(Undefined, st)) : st \in WebStructured }
    \cup { WResult(PObj(Str(MdPlain), SObj(<<"Jane">>, <<>>))),
           WResult(PObj(Str(MdPlain), SObj(<<>>, <<>>))) }

\* The truthiness of a value.
Truthy(v) ==
    \/ v.vt = "string" /\ v.val # <<>>
    \/ v.vt = "number" /\ v.val # <<"0">>
    \/ v.vt = "object"
TruthyS(st) ==
    \/ st.t = "object"
    \/ st.t = "string" /\ st.s # <<>>
    \/ st.t = "number" /\ st.s # <<"0">>
\* ------------------------------------------ the web form: pure functions
\* Array.prototype.join for lines of text.
RECURSIVE Join(_, _)
Join(parts, sep) ==
    IF parts = <<>> THEN <<>>
    ELSE IF Len(parts) = 1 THEN parts[1]
    ELSE parts[1] \o sep \o Join(Tail(parts), sep)

\* JSON.stringify(value, null, 2): a line break and two spaces per level
\* before each member; fields that are undefined are left out.
Indent(d) == <<"\n">> \o [i \in 1..(2 * d) |-> " "]
Quoted(s) == <<Q>> \o Escape(s) \o <<Q>>
Member(key, tokens) == <<Q, key, Q, ":", " ">> \o tokens
PrettyObj(members, d) ==
    IF members = <<>> THEN <<"{", "}">>
    ELSE <<"{">>
         \o Join([i \in 1..Len(members) |-> Indent(d + 1) \o members[i]], <<",">>)
         \o Indent(d) \o <<"}">>
PrettyArr(items, d) ==
    IF items = <<>> THEN <<"[", "]">>
    ELSE <<"[">>
         \o Join([i \in 1..Len(items) |-> Indent(d + 1) \o items[i]], <<",">>)
         \o Indent(d) \o <<"]">>
PrettyItem(item, d) ==
    IF item = "null" THEN <<"null">>
    ELSE IF item = "titled" THEN PrettyObj(<<Member("title", Quoted(<<"Dev">>))>>, d)
    ELSE <<"{", "}">>
PrettyValue(v) ==
    IF v.vt = "string" THEN Quoted(v.val)
    ELSE IF v.vt = "number" THEN v.val
    ELSE <<"null">>
PrettyStructured(st, d) ==
    IF st.t = "string" THEN Quoted(st.s)
    ELSE IF st.t = "number" THEN st.s
    ELSE IF st.t = "null" THEN <<"null">>
    ELSE PrettyObj(
           (IF st.name # <<>> THEN <<Member("name", Quoted(st.name))>> ELSE <<>>)
           \o (IF st.experience # <<>>
               THEN <<Member("experience",
                             PrettyArr([i \in 1..Len(st.experience) |->
                                           PrettyItem(st.experience[i], d + 2)],
                                       d + 1))>>
               ELSE <<>>),
           d)
PrettyParsed(p, d) ==
    IF p.t = "null" THEN <<"null">>
    ELSE IF p.t = "string" THEN Quoted(p.s)
    ELSE PrettyObj(
           (IF p.markdown.vt # "undefined"
            THEN <<Member("markdown", PrettyValue(p.markdown))>> ELSE <<>>)
           \o (IF p.structured.t # "undefined"
               THEN <<Member("structured", PrettyStructured(p.structured, d + 1))>>
               ELSE <<>>),
           d)
FormatJson(value) ==
    PrettyObj(
      (IF value.parsed.t # "undefined"
       THEN <<Member("parsed", PrettyParsed(value.parsed, 1))>> ELSE <<>>)
      \o (IF value.error.vt # "undefined"
          THEN <<Member("error", PrettyValue(value.error))>> ELSE <<>>),
      0)

\* A value JSON.parse returned, read as a structured value.
AsStructured(v) ==
    IF v.vt = "string" THEN SText(v.val)
    ELSE IF v.vt = "number" THEN SNumber(v.val)
    ELSE SNone
\* Whether JSON.parse(text) gives a value whose markdown is a string.
ParsesToMarkdown(text) ==
    LET parsed == JSONParse(text)
    IN  parsed # SyntaxError /\ parsed # JNull /\ Prop(parsed, "markdown").vt = "string"

\* extractMarkdown giving up on a markdown string that is not JSON.
ExtractMarkdownStrict(data) ==
    LET parsedField == data.parsed
        maybe == IF parsedField.t = "object" THEN parsedField.markdown ELSE Undefined
    IN  IF parsedField.t = "string" /\ ParsesToMarkdown(parsedField.s)
        THEN Prop(JSONParse(parsedField.s), "markdown")
        ELSE IF maybe.vt = "string" /\ ParsesToMarkdown(maybe.val)
        THEN Prop(JSONParse(maybe.val), "markdown")
        ELSE Null

\* extractMarkdown unwrapping for as long as the string it finds wraps another.
RECURSIVE Unwrapped(_)
Unwrapped(text) ==
    IF ParsesToMarkdown(text) THEN Unwrapped(Prop(JSONParse(text), "markdown").val)
    ELSE text
ExtractMarkdownDeep(data) ==
    LET parsedField == data.parsed
        maybe == IF parsedField.t = "object" THEN parsedField.markdown ELSE Undefined
    IN  IF parsedField.t = "string" /\ ParsesToMarkdown(parsedField.s)
        THEN Str(Unwrapped(parsedField.s))
        ELSE IF maybe.vt = "string"
        THEN Str(Unwrapped(maybe.val))
        ELSE Null

\* extractMarkdown(result)
ExtractMarkdown(data) ==
    LET parsedField == data.parsed
        maybe == IF parsedField.t = "object" THEN parsedField.markdown ELSE Undefined
    IN  IF parsedField.t = "string" /\ ParsesToMarkdown(parsedField.s)
        THEN Prop(JSONParse(parsedField.s), "markdown")
        ELSE IF maybe.vt = "string"
        THEN IF ParsesToMarkdown(maybe.val)
             THEN Prop(JSONParse(maybe.val), "markdown")
             ELSE maybe
        ELSE Null

\* extractStructured(result)
ExtractStructured(data) ==
    LET parsed == data.parsed
    IN  IF parsed.t \in {"undefined", "null"} \/ (parsed.t = "string" /\ parsed.s = <<>>)
        THEN SNull
        ELSE IF parsed.t = "object" /\ TruthyS(parsed.structured)
        THEN parsed.structured
        ELSE IF parsed.t = "string"
        THEN LET json == JSONParse(parsed.s)
             IN  IF json = SyntaxError THEN SNull
                 ELSE IF Truthy(Prop(json, "structured"))
                 THEN AsStructured(Prop(json, "structured"))
                 ELSE SNull
        ELSE SNull

\* What a function of the page does: return a value or throw.
Returns(v) == [throws |-> FALSE, value |-> v, error |-> <<>>]
Raises(msg) == [throws |-> TRUE, value |-> Null, error |-> msg]
NullTitle == <<"Cannot read properties of null (reading 'title')">>

\* The line renderStructured writes for an experience item.
ExperienceLine(item) == IF item = "titled" THEN <<"- ", "Dev">> ELSE <<"- ", "Role">>

\* renderStructured(structured): the name and the experience lines; reading
\* the title of an item that is null throws a TypeError.
RenderStructured(structured) ==
    IF structured.t # "object" THEN Returns(Null)
    ELSE IF \E i \in 1..Len(structured.experience) : structured.experience[i] = "null"
    THEN Raises(NullTitle)
    ELSE LET lines ==
                 (IF structured.name # <<>> THEN << <<"Name: ">> \o structured.name >>
                  ELSE <<>>)
                 \o (IF structured.experience # <<>>
                     THEN << <<>>, <<"Experience:">> >>
                          \o [i \in 1..Len(structured.experience) |->
                                 ExperienceLine(structured.experience[i])]
                     ELSE <<>>)
         IN  IF lines = <<>> THEN Returns(Null) ELSE Returns(Str(Join(lines, <<"\n">>)))

\* What showResult(result) does to the page: the text of the result element
\* and whether the structured grid is on display; with it what its calls of
\* extractStructured and extractMarkdown returned.
Shown(text, grid, st, md) ==
    [throws |-> FALSE, error |-> <<>>, text |-> text, grid |-> grid,
     structured |-> st, markdown |-> md]
ShowResult(data) ==
    LET structured == ExtractStructured(data)
        rendered == IF TruthyS(structured) THEN RenderStructured(structured)
                    ELSE Returns(Null)
        markdown == ExtractMarkdown(data)
    IN  IF rendered.throws
        THEN [throws |-> TRUE, error |-> rendered.error, text |-> <<>>, grid |-> FALSE,
              structured |-> structured, markdown |-> Undefined]
        ELSE IF Truthy(rendered.value)
        THEN Shown(rendered.value.val, TRUE, structured, Undefined)
        ELSE IF Truthy(markdown)
        THEN Shown(markdown.val, FALSE, structured, markdown)
        ELSE Shown(FormatJson(data), FALSE, structured, markdown)
\* The page before anything was submitted: the chosen file ("none" when no
\* file is chosen), the text area, the submit button, the tone of the status
\* line, the result element, the structured grid; and, noted of the run of
\* handleSubmit, whether callFunction returned, whether showResult threw, and
\* what extractStructured and extractMarkdown returned for the response.
FreshPage(file, text) ==
    [stage |-> "idle", file |-> file, input |-> text, disabled |-> FALSE,
     tone |-> "none", text |-> <<"Waiting for response...">>, grid |-> FALSE,
     called |-> FALSE, threw |-> FALSE, structured |-> SNone, markdown |-> Undefined]
NoPage == FreshPage("none", <<>>)
NoRequest == Request(Undefined, FALSE, FALSE)
Init ==
    /\ flow \in Flows
    /\ req \in Requests
    /\ pc = "load"
    /\ now = EpochMs
    /\ input = NoInput
    /\ fileId = Undefined
    /\ jobId = Undefined
    /\ started = 0
    /\ queries = 0
    /\ fetches = 0
    /\ sleeps = 0
    /\ submits = 0
    /\ seen = NothingSeen
    /\ result = Pending
    /\ thrown = NoError
    /\ inserted = FALSE
    /\ reply = NoReply
    /\ downloads = 0
    /\ row = NoRow
    /\ response = NoResponse
    /\ page = NoPage
    /\ jobs = NoJobs

\* A throw that reaches the handler's try block.
Throw(e) == /\ thrown' = e
            /\ pc' = "catch"

\* --------------------------------------------------------- loadResumeInput
\* body.text && body.text.trim().length > 0
\* body.text without the trim: a blank text counts as a text.
TextUsableUntrimmed ==
    /\ req.text.vt = "string"
    /\ Len(req.text.val) + req.pad.ascii + req.pad.wide > 0
\* loadResumeInput taking the text whenever the request has a text member.
TextUsableAnyString == req.text.vt = "string"
TextUsable ==
    /\ req.text.vt = "string"
    /\ Len(req.text.val) + req.pad.ascii + req.pad.wide > 0
    /\ Len(Trim(req.text.val)) + req.pad.ascii + req.pad.wide > 0

LoadFromText ==
    /\ pc = "load"
    /\ TextUsable
    /\ input' = [buffer |-> req.text.val, pad |-> req.pad, filename |-> "resume.txt",
                 contentType |-> "text/plain"]
    /\ pc' = "submit"
    /\ UNCHANGED <<flow, req, now, fileId, jobId, started, queries, fetches, sleeps,
                   submits, seen, result, thrown, inserted, reply>>
    /\ UNCHANGED web
    /\ UNCHANGED jobs
    /\ UNCHANGED store

LoadRejects ==
    /\ pc = "load"
    /\ ~TextUsable
    /\ ~req.bucket \/ ~req.filePath
    /\ Throw(Error("Provide either text or (bucket and filePath)", <<>>))
    /\ UNCHANGED <<flow, req, now, input, fileId, jobId, started, queries, fetches,
                   sleeps, submits, seen, result, inserted, reply>>
    /\ UNCHANGED web
    /\ UNCHANGED jobs
    /\ UNCHANGED store

LoadFromStorage ==
    /\ pc = "load"
    /\ ~TextUsable
    /\ req.bucket /\ req.filePath
    /\ downloads' = downloads + 1
    /\ \/ \E file \in StoredFiles :
            /\ input' = [buffer |-> file.buffer, pad |-> NoPad,
                         filename |-> "resume." \o file.ext,
                         contentType |-> file.type]
            /\ pc' = "submit"
            /\ UNCHANGED thrown
       \/ /\ Throw(Error("Unable to download file: ", <<"not", " ", "found">>))
          /\ UNCHANGED input
    /\ UNCHANGED <<flow, req, now, fileId, jobId, started, queries, fetches, sleeps,
                   submits, seen, result, inserted, reply, row>>
    /\ UNCHANGED web
    /\ UNCHANGED jobs


\* What a step of a function does next: go on with a value, or throw.
Go(v) == [throws |-> FALSE, value |-> v, error |-> NoError]
Fail(e) == [throws |-> TRUE, value |-> Undefined, error |-> e]

\* ------------------------------------------------ parse: uploadToLlamaParse
\* The text the upload error carries after its prefix.
UploadErrorText(raw) == raw

\* What uploadToLlamaParse makes of the response to POST /upload.
UploadToLlamaParse(r) ==
    IF r = NetworkFailure THEN Fail(FetchFailed)
    ELSE IF ~Ok(r.status)
    THEN Fail(Error("LlamaParse upload failed: ", UploadErrorText(r.text)))
    ELSE LET json == JSONParse(r.text)
         IN  IF json = SyntaxError THEN Fail(Error("SyntaxError", <<>>))
             ELSE IF json = JNull THEN Fail(Error("TypeError: null has no properties", <<>>))
             ELSE Go(Prop(json, "id"))

\* parseResumeWithLlamaParse: await uploadToLlamaParse(input); on return the
\* poll loop starts at once and takes `started`.
ParseUpload ==
    /\ pc = "submit" /\ flow = "parse"
    /\ \E r \in SubmitResponses :
         LET o == UploadToLlamaParse(r)
         IN  /\ submits' = submits + 1
             /\ IF o.throws
                THEN /\ result' = Rejected(o.error, now)
                     /\ Throw(o.error)
                     /\ UNCHANGED <<jobId, started>>
                ELSE /\ jobId' = o.value
                     /\ started' = now
                     /\ pc' = "loop"
                     /\ UNCHANGED <<result, thrown>>
    /\ UNCHANGED <<flow, req, now, input, fileId, queries, fetches, sleeps, seen,
                   inserted, reply>>
    /\ UNCHANGED web
    /\ UNCHANGED jobs
    /\ UNCHANGED store

\* ---------------------------------------------- parse: pollLlamaParseMarkdown
\* The classification of one poll response.
Ready(v) == [class |-> "Ready", value |-> v, error |-> NoError]
StillPending == [class |-> "Pending", value |-> Undefined, error |-> NoError]
Permanent(e) == [class |-> "Permanent", value |-> Undefined, error |-> e]

\* message.includes("Job not completed yet") || message.includes("Result for Parsing Job")
IsPendingMessage(message) ==
    Includes(message, JobNotCompletedYet) \/ Includes(message, ResultForParsingJob)

\* res.status === 400 || res.status === 404
NotReadyStatus(status) == status = 400 \/ status = 404

\* ClassifyMarkdown reading the message of every non-success response before
\* its status, so that a pending substring makes any status "still processing".
ClassifyMarkdownByMessage(r) ==
    IF r = NetworkFailure THEN Permanent(FetchFailed)
    ELSE IF Ok(r.status)
    THEN LET json == JSONParse(r.text)
         IN  IF json # SyntaxError /\ json # JNull /\ Prop(json, "markdown").vt = "string"
             THEN Ready(Prop(json, "markdown"))
             ELSE Ready(Str(r.text))
    ELSE LET parsed == JSONParse(r.text)
             detail == IF parsed = SyntaxError THEN JEmpty ELSE parsed
             field == Prop(detail, "detail")
             message == IF field.vt = "string" THEN field.val ELSE <<>>
         IN  IF IsPendingMessage(message)
             THEN StillPending
             ELSE IF NotReadyStatus(r.status)
             THEN Permanent(Error("LlamaParse job error: ",
                                  IF detail = JNull THEN StringifyStr(<<"unknown">>)
                                  ELSE JSONStringify(detail)))
             ELSE Permanent(Error("LlamaParse poll failed: ", r.text))

\* ClassifyMarkdown with the fetch wrapped in a catch that waits and tries
\* again.
ClassifyMarkdownRetrying(r) ==
    IF r = NetworkFailure THEN StillPending
    ELSE IF Ok(r.status)
    THEN LET json == JSONParse(r.text)
         IN  IF json # SyntaxError /\ json # JNull /\ Prop(json, "markdown").vt = "string"
             THEN Ready(Prop(json, "markdown"))
             ELSE Ready(Str(r.text))
    ELSE IF NotReadyStatus(r.status)
    THEN LET parsed == JSONParse(r.text)
             detail == IF parsed = SyntaxError THEN JEmpty ELSE parsed
             field == Prop(detail, "detail")
             message == IF field.vt = "string" THEN field.val ELSE <<>>
         IN  IF IsPendingMessage(message)
             THEN StillPending
             ELSE Permanent(Error("LlamaParse job error: ",
                                  IF detail = JNull THEN StringifyStr(<<"unknown">>)
                                  ELSE JSONStringify(detail)))
    ELSE Permanent(Error("LlamaParse poll failed: ", r.text))

\* ClassifyMarkdown testing res.status === 200 in place of res.ok.
ClassifyMarkdownOnly200(r) ==
    IF r = NetworkFailure THEN Permanent(FetchFailed)
    ELSE IF r.status = 200
    THEN LET json == JSONParse(r.text)
         IN  IF json # SyntaxError /\ json # JNull /\ Prop(json, "markdown").vt = "string"
             THEN Ready(Prop(json, "markdown"))
             ELSE Ready(Str(r.text))
    ELSE IF NotReadyStatus(r.status)
    THEN LET parsed == JSONParse(r.text)
             detail == IF parsed = SyntaxError THEN JEmpty ELSE parsed
             field == Prop(detail, "detail")
             message == IF field.vt = "string" THEN field.val ELSE <<>>
         IN  IF IsPendingMessage(message)
             THEN StillPending
             ELSE Permanent(Error("LlamaParse job error: ",
                                  IF detail = JNull THEN StringifyStr(<<"unknown">>)
                                  ELSE JSONStringify(detail)))
    ELSE Permanent(Error("LlamaParse poll failed: ", r.text))
\* ClassifyMarkdown deciding "still processing" by the status code alone.
ClassifyMarkdownByStatus(r) ==
    IF r = NetworkFailure THEN Permanent(FetchFailed)
    ELSE IF Ok(r.status) THEN Ready(Str(r.text))
    ELSE IF NotReadyStatus(r.status) THEN StillPending
    ELSE Permanent(Error("LlamaParse poll failed: ", r.text))

\* ClassifyMarkdown looking for the "still processing" substrings in the raw
\* body instead of the string under "detail".
ClassifyMarkdownRawBody(r) ==
    IF r = NetworkFailure THEN Permanent(FetchFailed)
    ELSE IF Ok(r.status) THEN Ready(Str(r.text))
    ELSE IF NotReadyStatus(r.status)
    THEN IF IsPendingMessage(r.text)
         THEN StillPending
         ELSE Permanent(Error("LlamaParse job error: ", r.text))
    ELSE Permanent(Error("LlamaParse poll failed: ", r.text))
\* The body of the while loop after the fetch returned.
ClassifyMarkdown(r) ==
    IF r = NetworkFailure THEN Permanent(FetchFailed)
    ELSE IF Ok(r.status)
    THEN LET json == JSONParse(r.text)
         IN  IF json # SyntaxError /\ json # JNull /\ Prop(json, "markdown").vt = "string"
             THEN Ready(Prop(json, "markdown"))
             ELSE Ready(Str(r.text))
    ELSE IF NotReadyStatus(r.status)
    THEN LET parsed == JSONParse(r.text)
             detail == IF parsed = SyntaxError THEN JEmpty ELSE parsed
             field == Prop(detail, "detail")
             message == IF field.vt = "string" THEN field.val ELSE <<>>
         IN  IF IsPendingMessage(message)
             THEN StillPending
             ELSE Permanent(Error("LlamaParse job error: ",
                                  IF detail = JNull THEN StringifyStr(<<"unknown">>)
                                  ELSE JSONStringify(detail)))
    ELSE Permanent(Error("LlamaParse poll failed: ", r.text))

\* ParseWithinBudget with the subtraction the wrong way round.
ParseWithinBudgetSwapped(t, t0) == t0 - t > POLL_MAX_MS

\* Date.now() - started < POLL_MAX_MS
ParseWithinBudget(t, t0) == t - t0 < POLL_MAX_MS

\* What the observer notes of a classified poll response.
Note(r, class) ==
    [n |-> seen.n + 1,
     first |-> IF seen.first = "none" THEN class ELSE seen.first,
     pendings |-> seen.pendings + (IF class = "Pending" THEN 1 ELSE 0),
     onlyNotFound |-> seen.onlyNotFound
                      /\ (class = "Pending" => r = Http(404, TxtResultNotFound)),
     onlyRunning |-> seen.onlyRunning /\ r = Http(202, TxtRunning),
     lastResp |-> r]

\* The loop condition holds: the next query goes out.
\* The loop starting a query without awaiting the response of the one before.
ParsePollQueryNotAwaiting ==
    /\ pc \in {"loop", "polling"} /\ flow = "parse"
    /\ ParseWithinBudget(now, started)
    /\ queries' = queries + 1
    /\ pc' = "polling"
    /\ UNCHANGED <<flow, req, now, input, fileId, jobId, started, fetches, sleeps,
                   submits, seen, result, thrown, inserted, reply>>
    /\ UNCHANGED web
    /\ UNCHANGED jobs
    /\ UNCHANGED store
ParsePollQuery ==
    /\ pc = "loop" /\ flow = "parse"
    /\ ParseWithinBudget(now, started)
    /\ queries' = queries + 1
    /\ pc' = "polling"
    /\ UNCHANGED <<flow, req, now, input, fileId, jobId, started, fetches, sleeps,
                   submits, seen, result, thrown, inserted, reply>>
    /\ UNCHANGED web
    /\ UNCHANGED jobs
    /\ UNCHANGED store

\* ParseTimeout without the throw after the loop: once the budget is used up
\* the function neither polls nor returns.
ParseTimeoutSpinning ==
    /\ pc = "loop" /\ flow = "parse"
    /\ ~ParseWithinBudget(now, started)
    /\ UNCHANGED vars
\* The loop condition fails: throw "LlamaParse job timed out".
ParseTimeout ==
    /\ pc = "loop" /\ flow = "parse"
    /\ ~ParseWithinBudget(now, started)
    /\ result' = Rejected(Error("LlamaParse job timed out", <<>>), now)
    /\ Throw(result'.error)
    /\ UNCHANGED <<flow, req, now, input, fileId, jobId, started, queries, fetches,
                   sleeps, submits, seen, inserted, reply>>
    /\ UNCHANGED web
    /\ UNCHANGED jobs
    /\ UNCHANGED store

\* ParseAfter with the error reported but the loop not left: it waits and
\* polls again after a Permanent response.
ParseAfterNotLeaving(o, t) ==
    IF o.class = "Ready"
    THEN /\ result' = Fulfilled(o.value, t)
         /\ pc' = "insert"
         /\ UNCHANGED <<sleeps, thrown>>
    ELSE /\ sleeps' = sleeps + 1
         /\ pc' = "sleeping"
         /\ result' = IF o.class = "Pending" THEN result ELSE Rejected(o.error, t)
         /\ UNCHANGED thrown

\* ParseAfter with the interval wait placed before the classification, so that
\* a wait is begun after a Ready response too.
ParseAfterWaitingFirst(o, t) ==
    IF o.class = "Ready"
    THEN /\ result' = Fulfilled(o.value, t)
         /\ pc' = "insert"
         /\ sleeps' = sleeps + 1
         /\ UNCHANGED thrown
    ELSE IF o.class = "Pending"
    THEN /\ sleeps' = sleeps + 1
         /\ pc' = "sleeping"
         /\ UNCHANGED <<result, thrown>>
    ELSE /\ result' = Rejected(o.error, t)
         /\ Throw(o.error)
         /\ UNCHANGED sleeps

\* How the loop goes on after a classified response.
ParseAfter(o, t) ==
    IF o.class = "Ready"
    THEN /\ result' = Fulfilled(o.value, t)
         /\ pc' = "insert"
         /\ UNCHANGED <<sleeps, thrown>>
    ELSE IF o.class = "Pending"
    THEN /\ sleeps' = sleeps + 1
         /\ pc' = "sleeping"
         /\ UNCHANGED <<result, thrown>>
    ELSE /\ result' = Rejected(o.error, t)
         /\ Throw(o.error)
         /\ UNCHANGED sleeps

\* The fetch of the loop returns and the response is classified.
ParsePollResponse ==
    /\ pc = "polling" /\ flow = "parse"
    /\ \E r \in MarkdownResponses, lat \in Latencies :
         LET o == ClassifyMarkdown(r)
         IN  /\ now' = now + lat
             /\ seen' = Note(r, o.class)
             /\ ParseAfter(o, now')
    /\ UNCHANGED <<flow, req, input, fileId, jobId, started, queries, fetches,
                   submits, inserted, reply>>
    /\ UNCHANGED web
    /\ UNCHANGED jobs
    /\ UNCHANGED store

\* ParseSleepDone with the timer's promise not awaited: no time passes.
ParseSleepDoneNoDelay ==
    /\ pc = "sleeping" /\ flow = "parse"
    /\ now' = now
    /\ pc' = "loop"
    /\ UNCHANGED <<flow, req, input, fileId, jobId, started, queries, fetches, sleeps,
                   submits, seen, result, thrown, inserted, reply>>
    /\ UNCHANGED web
    /\ UNCHANGED jobs
    /\ UNCHANGED store

\* ParseSleepDone with the start time taken anew after each wait, so that
\* every turn of the loop gets a fresh budget.
ParseSleepDoneResetting ==
    /\ pc = "sleeping" /\ flow = "parse"
    /\ now' = now + POLL_INTERVAL_MS
    /\ started' = now'
    /\ pc' = "loop"
    /\ UNCHANGED <<flow, req, input, fileId, jobId, queries, fetches, sleeps,
                   submits, seen, result, thrown, inserted, reply>>
    /\ UNCHANGED web
    /\ UNCHANGED jobs
    /\ UNCHANGED store
\* setTimeout(r, POLL_INTERVAL_MS) fires; `continue`.
ParseSleepDone ==
    /\ pc = "sleeping" /\ flow = "parse"
    /\ now' = now + POLL_INTERVAL_MS
    /\ pc' = "loop"
    /\ UNCHANGED <<flow, req, input, fileId, jobId, started, queries, fetches, sleeps,
                   submits, seen, result, thrown, inserted, reply>>
    /\ UNCHANGED web
    /\ UNCHANGED jobs
    /\ UNCHANGED store

\* ------------------------------------- extract: llamaUploadFile, llamaCreateJob
\* raw.slice(0, 400): the part of a response body an error message carries.
ErrorBody(raw) == Slice(raw, ERR_BODY_MAX)

\* The four request functions share one shape: read the body, throw on a
\* non-success status, JSON.parse the body.
ExtractRead(r, prefix) ==
    IF r = NetworkFailure THEN Fail(FetchFailed)
    ELSE IF ~Ok(r.status) THEN Fail(Error(prefix, ErrorBody(r.text)))
    ELSE LET json == JSONParse(r.text)
         IN  IF json = SyntaxError THEN Fail(Error("SyntaxError", <<>>))
             ELSE [throws |-> FALSE, value |-> json, error |-> NoError]

\* return json?.id
IdOf(read) == IF read.throws THEN read ELSE Go(Prop(read.value, "id"))

LlamaUploadFile(r) == IdOf(ExtractRead(r, "LlamaExtract upload failed: "))
LlamaCreateJob(r) == IdOf(ExtractRead(r, "LlamaExtract job create failed: "))
LlamaPollJob(r) == ExtractRead(r, "LlamaExtract job status failed: ")
LlamaGetResult(r) == ExtractRead(r, "LlamaExtract result failed: ")

\* const fileId = await llamaUploadFile(input)
ExtractUploadFile ==
    /\ pc = "submit" /\ flow = "extract"
    /\ \E r \in SubmitResponses :
         LET o == LlamaUploadFile(r)
         IN  /\ submits' = submits + 1
             /\ IF o.throws
                THEN /\ result' = Rejected(o.error, now)
                     /\ Throw(o.error)
                     /\ UNCHANGED fileId
                ELSE /\ fileId' = o.value
                     /\ pc' = "create"
                     /\ UNCHANGED <<result, thrown>>
    /\ UNCHANGED <<flow, req, now, input, jobId, started, queries, fetches, sleeps,
                   seen, inserted, reply>>
    /\ UNCHANGED web
    /\ UNCHANGED jobs
    /\ UNCHANGED store

\* const jobId = await llamaCreateJob(agentId, fileId); the deadline is taken
\* when it returns.
ExtractCreateJob ==
    /\ pc = "create" /\ flow = "extract"
    /\ \E r \in SubmitResponses :
         LET o == LlamaCreateJob(r)
         IN  /\ submits' = submits + 1
             /\ IF o.throws
                THEN /\ result' = Rejected(o.error, now)
                     /\ Throw(o.error)
                     /\ UNCHANGED <<jobId, started>>
                ELSE /\ jobId' = o.value
                     /\ started' = now
                     /\ pc' = "loop"
                     /\ UNCHANGED <<result, thrown>>
    /\ UNCHANGED <<flow, req, now, input, fileId, queries, fetches, sleeps, seen,
                   inserted, reply>>
    /\ UNCHANGED web
    /\ UNCHANGED jobs
    /\ UNCHANGED store

\* ------------------------------------------ extract: parseResumeWithLlamaExtract
\* Date.now() < deadline, the deadline being Date.now() + 60000 at t0.
ExtractWithinBudget(t, t0) == t < t0 + EXTRACT_MAX_MS

\* One turn of the while loop after llamaPollJob settled.
\* The status of a poll read with FAILED taken for a job still running.
ClassifyStatusWaitingOnFailed(r) ==
    LET read == LlamaPollJob(r)
    IN  IF read.throws THEN Permanent(read.error)
        ELSE IF Prop(read.value, "status") = Str(<<"SUCCESS">>) THEN Ready(Undefined)
        ELSE StillPending
ClassifyStatus(r) ==
    LET read == LlamaPollJob(r)
    IN  IF read.throws THEN Permanent(read.error)
        ELSE IF Prop(read.value, "status") = Str(<<"SUCCESS">>) THEN Ready(Undefined)
        ELSE IF Prop(read.value, "status") = Str(<<"FAILED">>)
        THEN Permanent(Error("LlamaExtract job failed: ", JSONStringify(read.value)))
        ELSE StillPending

\* The loop condition holds: llamaPollJob(jobId) is called.
ExtractPollQuery ==
    /\ pc = "loop" /\ flow = "extract"
    /\ ExtractWithinBudget(now, started)
    /\ queries' = queries + 1
    /\ pc' = "polling"
    /\ UNCHANGED <<flow, req, now, input, fileId, jobId, started, fetches, sleeps,
                   submits, seen, result, thrown, inserted, reply>>
    /\ UNCHANGED web
    /\ UNCHANGED jobs
    /\ UNCHANGED store

\* The loop condition fails: control leaves the loop and llamaGetResult(jobId)
\* is called.
ExtractLoopExit ==
    /\ pc = "loop" /\ flow = "extract"
    /\ ~ExtractWithinBudget(now, started)
    /\ fetches' = fetches + 1
    /\ pc' = "fetching"
    /\ UNCHANGED <<flow, req, now, input, fileId, jobId, started, queries, sleeps,
                   submits, seen, result, thrown, inserted, reply>>
    /\ UNCHANGED web
    /\ UNCHANGED jobs
    /\ UNCHANGED store

\* How the loop goes on after a classified status: break (and call
\* llamaGetResult), wait, or throw.
ExtractAfter(o, t) ==
    IF o.class = "Ready"
    THEN /\ fetches' = fetches + 1
         /\ pc' = "fetching"
         /\ UNCHANGED <<sleeps, result, thrown>>
    ELSE IF o.class = "Pending"
    THEN /\ sleeps' = sleeps + 1
         /\ pc' = "sleeping"
         /\ UNCHANGED <<fetches, result, thrown>>
    ELSE /\ result' = Rejected(o.error, t)
         /\ Throw(o.error)
         /\ UNCHANGED <<fetches, sleeps>>

\* llamaPollJob settles.
ExtractPollResponse ==
    /\ pc = "polling" /\ flow = "extract"
    /\ \E r \in StatusResponses, lat \in Latencies :
         LET o == ClassifyStatus(r)
         IN  /\ now' = now + lat
             /\ seen' = Note(r, o.class)
             /\ ExtractAfter(o, now')
    /\ UNCHANGED <<flow, req, input, fileId, jobId, started, queries, submits,
                   inserted, reply>>
    /\ UNCHANGED web
    /\ UNCHANGED jobs
    /\ UNCHANGED store

\* setTimeout(r, 3000) fires.
ExtractSleepDone ==
    /\ pc = "sleeping" /\ flow = "extract"
    /\ now' = now + EXTRACT_INTERVAL_MS
    /\ pc' = "loop"
    /\ UNCHANGED <<flow, req, input, fileId, jobId, started, queries, fetches, sleeps,
                   submits, seen, result, thrown, inserted, reply>>
    /\ UNCHANGED web
    /\ UNCHANGED jobs
    /\ UNCHANGED store

\* result?.data ?? null
StructuredOf(json) ==
    IF Prop(json, "data") = Undefined THEN Null ELSE Prop(json, "data")

\* llamaGetResult settles; the function returns {structured, jobId, source}.
ExtractResultResponse ==
    /\ pc = "fetching" /\ flow = "extract"
    /\ \E r \in ResultResponses, lat \in Latencies :
         LET o == LlamaGetResult(r)
         IN  /\ now' = now + lat
             /\ IF o.throws
                THEN /\ result' = Rejected(o.error, now')
                     /\ Throw(o.error)
                ELSE /\ result' = Fulfilled(StructuredOf(o.value), now')
                     /\ pc' = "insert"
                     /\ UNCHANGED thrown
    /\ UNCHANGED <<flow, req, input, fileId, jobId, started, queries, fetches, sleeps,
                   submits, seen, inserted, reply>>
    /\ UNCHANGED web
    /\ UNCHANGED jobs
    /\ UNCHANGED store

\* ------------------------------------------------------ the request handler
\* parse: the raw_text of the row, from the bytes of the input.
ParseRawText(given) ==
    LET text == Text(given.buffer, given.pad)
    IN  IF Bytes(text) > MAX_TEXT_STORE THEN DecodeSlice(text, MAX_TEXT_STORE) ELSE text

\* extract: the raw_text of the row, from body.text; null without a text.
ExtractRawText(body) ==
    LET rawText == IF body.text.vt = "string"
                      /\ Len(body.text.val) + body.pad.ascii + body.pad.wide > 0
                   THEN Text(body.text.val, body.pad) ELSE NoText
    IN  IF rawText.t = "string" /\ Chars(rawText) > MAX_TEXT_STORE
        THEN SliceChars(rawText, MAX_TEXT_STORE)
        ELSE IF rawText.t = "string" THEN rawText ELSE NullText

\* What the insert can come to: a row with its id, a row whose id is not
\* returned, an error.
InsertOutcomes == {"row", "rowWithoutId", "error"}

\* ParseInsert with the insert error only logged, as the extraction handler
\* does.
ParseInsertLoggingError ==
    /\ pc = "insert" /\ flow = "parse"
    /\ \E ok \in BOOLEAN :
         /\ inserted' = ok
         /\ row' = IF ok THEN ParseRawText(input) ELSE row
         /\ reply' = [status |-> 200, error |-> NoError,
                      resumeId |-> IF ok THEN Str(<<"R1">>) ELSE Null,
                      parsed |-> result.value]
    /\ pc' = "done"
    /\ UNCHANGED <<flow, req, now, input, fileId, jobId, started, queries, fetches,
                   sleeps, submits, seen, result, thrown, downloads>>
    /\ UNCHANGED web
    /\ UNCHANGED jobs
\* parse: insert the row, then respond(200); an insert error is thrown.
ParseInsert ==
    /\ pc = "insert" /\ flow = "parse"
    /\ \E ok \in BOOLEAN :
         IF ok
         THEN /\ inserted' = TRUE
              /\ row' = ParseRawText(input)
              /\ reply' = [status |-> 200, error |-> NoError, resumeId |-> Str(<<"R1">>),
                           parsed |-> result.value]
              /\ pc' = "done"
              /\ UNCHANGED thrown
         ELSE /\ Throw(Error("insert failed", <<>>))
              /\ UNCHANGED <<inserted, reply, row>>
    /\ UNCHANGED <<flow, req, now, input, fileId, jobId, started, queries, fetches,
                   sleeps, submits, seen, result, downloads>>
    /\ UNCHANGED web
    /\ UNCHANGED jobs

\* extract: insert the row; an insert error is logged; respond(200) either way.
\* The insert of the extraction function throwing its error, as the markdown
\* function does.
ExtractInsertThrowing ==
    /\ pc = "insert" /\ flow = "extract"
    /\ \E outcome \in InsertOutcomes :
         IF outcome # "error"
         THEN /\ inserted' = TRUE
              /\ row' = ExtractRawText(req)
              /\ reply' = [status |-> 200, error |-> NoError,
                           resumeId |-> IF outcome = "row" THEN Str(<<"R1">>) ELSE Null,
                           parsed |-> result.value]
              /\ pc' = "done"
              /\ UNCHANGED thrown
         ELSE /\ Throw(Error("insert failed", <<>>))
              /\ UNCHANGED <<inserted, reply, row>>
    /\ UNCHANGED <<flow, req, now, input, fileId, jobId, started, queries, fetches,
                   sleeps, submits, seen, result, downloads>>
    /\ UNCHANGED web
    /\ UNCHANGED jobs
ExtractInsert ==
    /\ pc = "insert" /\ flow = "extract"
    /\ \E outcome \in InsertOutcomes :
         /\ inserted' = (outcome # "error")
         /\ row' = IF outcome # "error" THEN ExtractRawText(req) ELSE row
         /\ reply' = [status |-> 200, error |-> NoError,
                      resumeId |-> IF outcome = "row" THEN Str(<<"R1">>) ELSE Null,
                      parsed |-> result.value]
    /\ pc' = "done"
    /\ UNCHANGED <<flow, req, now, input, fileId, jobId, started, queries, fetches,
                   sleeps, submits, seen, result, thrown, downloads>>
    /\ UNCHANGED web
    /\ UNCHANGED jobs

\* catch (error): respond(400, {error: message}).
Catch ==
    /\ pc = "catch"
    /\ reply' = [status |-> 400, error |-> thrown, resumeId |-> Null,
                 parsed |-> Undefined]
    /\ pc' = "done"
    /\ UNCHANGED <<flow, req, now, input, fileId, jobId, started, queries, fetches,
                   sleeps, submits, seen, result, thrown, inserted>>
    /\ UNCHANGED web
    /\ UNCHANGED jobs
    /\ UNCHANGED store

Next ==
    \/ LoadFromText
    \/ LoadRejects
    \/ LoadFromStorage
    \/ ParseUpload
    \/ ParsePollQuery
    \/ ParseTimeout
    \/ ParsePollResponse
    \/ ParseSleepDone
    \/ ParseInsert
    \/ ExtractUploadFile
    \/ ExtractCreateJob
    \/ ExtractPollQuery
    \/ ExtractLoopExit
    \/ ExtractPollResponse
    \/ ExtractSleepDone
    \/ ExtractResultResponse
    \/ ExtractInsert
    \/ Catch

Spec == Init /\ [][Next]_vars


\* ------------------------------------------------ the web form: handleSubmit
\* The function's part of the state but for the request body.
server == <<flow, pc, now, input, fileId, jobId, started, queries, fetches, sleeps,
            submits, seen, result, thrown, inserted, reply, downloads, row>>

\* What the user chose and typed before submitting.
FormFiles == {"none", "pdf"}
FormTexts == {<<>>, <<" ">>, <<"Jane", " ", "Doe">>}
\* Messages of the errors uploadFile and callFunction throw.
UploadErrors == {<<"The resource already exists">>}
CallErrors ==
    {<<"Request failed with 400">>, <<"Failed to fetch">>,
     <<"LlamaExtract job failed: ">> \o TxtFailed}

\* The form is open and the function has not been called.
WebInit ==
    /\ flow = "extract"
    /\ req = NoRequest
    /\ pc = "idle"
    /\ now = EpochMs
    /\ input = NoInput
    /\ fileId = Undefined
    /\ jobId = Undefined
    /\ started = 0
    /\ queries = 0
    /\ fetches = 0
    /\ sleeps = 0
    /\ submits = 0
    /\ seen = NothingSeen
    /\ result = Pending
    /\ thrown = NoError
    /\ inserted = FALSE
    /\ reply = NoReply
    /\ downloads = 0
    /\ row = NoRow
    /\ response = NoResponse
    /\ \E f \in FormFiles, t \in FormTexts : page = FreshPage(f, t)
    /\ jobs = NoJobs

\* catch (error): showResult({error: message}), the error status; finally
\* the button is enabled again.
\* The catch of handleSubmit without the finally: the button stays disabled.
CaughtLeavingDisabled(msg, threw) ==
    LET shown == ShowResult(ErrorResult(msg))
    IN  [page EXCEPT !.stage = "done", !.tone = "error",
                     !.text = shown.text, !.grid = shown.grid, !.threw = threw]
Caught(msg, threw) ==
    LET shown == ShowResult(ErrorResult(msg))
    IN  [page EXCEPT !.stage = "done", !.disabled = FALSE, !.tone = "error",
                     !.text = shown.text, !.grid = shown.grid, !.threw = threw]

\* Neither a file nor text: the error status, and nothing else happens.
WebSubmitNothing ==
    /\ page.stage = "idle"
    /\ page.file = "none" /\ Trim(page.input) = <<>>
    /\ page' = [page EXCEPT !.stage = "done", !.tone = "error"]
    /\ UNCHANGED <<req, response>>
    /\ UNCHANGED server
    /\ UNCHANGED jobs

\* Text only: the button is disabled and callFunction({text}) is awaited.
WebSubmitText ==
    /\ page.stage = "idle"
    /\ page.file = "none" /\ Trim(page.input) # <<>>
    /\ page' = [page EXCEPT !.stage = "calling", !.disabled = TRUE, !.tone = "info"]
    /\ req' = Request(Str(Trim(page.input)), FALSE, FALSE)
    /\ UNCHANGED response
    /\ UNCHANGED server
    /\ UNCHANGED jobs

\* A file: the button is disabled and uploadFile(file) is awaited.
WebSubmitFile ==
    /\ page.stage = "idle"
    /\ page.file # "none"
    /\ page' = [page EXCEPT !.stage = "uploading", !.disabled = TRUE, !.tone = "info"]
    /\ UNCHANGED <<req, response>>
    /\ UNCHANGED server
    /\ UNCHANGED jobs

\* uploadFile settles: callFunction({bucket, filePath}) is awaited, or the
\* upload error is caught.
WebUploadDone ==
    /\ page.stage = "uploading"
    /\ \/ /\ page' = [page EXCEPT !.stage = "calling"]
          /\ req' = Request(Undefined, TRUE, TRUE)
       \/ /\ \E msg \in UploadErrors : page' = Caught(msg, FALSE)
          /\ UNCHANGED req
    /\ UNCHANGED response
    /\ UNCHANGED server
    /\ UNCHANGED jobs

\* callFunction returns the response body: showResult(response), then the
\* success status; what showResult throws is caught like every other error.
WebCallReturns ==
    /\ page.stage = "calling"
    /\ \E data \in WebResults :
         LET shown == ShowResult(data)
             noted == [page EXCEPT !.called = TRUE, !.structured = shown.structured,
                                   !.markdown = shown.markdown]
         IN  /\ response' = data
             /\ page' = IF shown.throws
                        THEN [Caught(shown.error, TRUE) EXCEPT
                                 !.called = TRUE, !.structured = shown.structured,
                                 !.markdown = shown.markdown]
                        ELSE [noted EXCEPT !.stage = "done", !.disabled = FALSE,
                                           !.tone = "success", !.text = shown.text,
                                           !.grid = shown.grid]
    /\ UNCHANGED req
    /\ UNCHANGED server
    /\ UNCHANGED jobs

\* callFunction throws: the function answered with an error status, or the
\* request failed.
WebCallThrows ==
    /\ page.stage = "calling"
    /\ \E msg \in CallErrors : page' = Caught(msg, FALSE)
    /\ UNCHANGED <<req, response>>
    /\ UNCHANGED server
    /\ UNCHANGED jobs

WebNext ==
    \/ WebSubmitNothing
    \/ WebSubmitText
    \/ WebSubmitFile
    \/ WebUploadDone
    \/ WebCallReturns
    \/ WebCallThrows

WebSpec == WebInit /\ [][WebNext]_vars
\* ------------------------------------------- one poll response, of any kind
\* Every status with every body: the responses of the running request and
\* the pairs the remote does not send together.
PollStatuses == Statuses \cup {204, 403}
TxtNotCompletedMessage == Words("message", JobNotCompletedYet)
PollBodies == MarkdownBodies \cup {TxtGarbage, TxtEmptyObj, TxtNotCompletedMessage}
PollResponses ==
    { Http(s, b) : s \in PollStatuses, b \in PollBodies } \cup {NetworkFailure}

\* The markdown function with its first poll query sent.
ClassifyInit ==
    /\ flow = "parse"
    /\ req = Request(Str(<<"Jane">>), FALSE, FALSE)
    /\ pc = "polling"
    /\ now = EpochMs
    /\ input = [buffer |-> <<"Jane">>, pad |-> NoPad, filename |-> "resume.txt",
                contentType |-> "text/plain"]
    /\ fileId = Undefined
    /\ jobId = Str(<<"J1">>)
    /\ started = EpochMs
    /\ queries = 1
    /\ fetches = 0
    /\ sleeps = 0
    /\ submits = 1
    /\ seen = NothingSeen
    /\ result = Pending
    /\ thrown = NoError
    /\ inserted = FALSE
    /\ reply = NoReply
    /\ downloads = 0
    /\ row = NoRow
    /\ response = NoResponse
    /\ page = NoPage
    /\ jobs = NoJobs

\* The fetch of the loop returns, with any response, and is classified.
ClassifyResponse ==
    /\ pc = "polling" /\ flow = "parse"
    /\ \E r \in PollResponses, lat \in Latencies :
         LET o == ClassifyMarkdown(r)
         IN  /\ now' = now + lat
             /\ seen' = Note(r, o.class)
             /\ ParseAfter(o, now')
    /\ UNCHANGED <<flow, req, input, fileId, jobId, started, queries, fetches,
                   submits, inserted, reply>>
    /\ UNCHANGED web
    /\ UNCHANGED jobs
    /\ UNCHANGED store

ClassifySpec == ClassifyInit /\ [][ClassifyResponse]_vars
\* ------------------------------------------------- two invocations at once
\* The runtime serves requests concurrently: each invocation of the handler
\* has its own locals (jobId, started or deadline, the loop's position), and
\* the invocations take turns at their awaits.  A job is the locals of one
\* invocation from the moment its job was created.
PairSlowMs == 40000
PairLatencies == {0, PairSlowMs}
PairMarkdownResponses ==
    { Http(200, TxtPlain), Http(404, TxtResultNotFound), Http(500, TxtLong) }
PairStatusResponses ==
    { Http(200, TxtSuccess), Http(200, TxtFailed), Http(202, TxtRunning) }
PairResultResponses == { Http(200, TxtData), Http(500, TxtLong) }
Invocations == {1, 2}
\* The locals of an invocation whose job was created at instant t.
NewJob(f, t) ==
    [flow |-> f, pc |-> "loop", now |-> t, started |-> t, queries |-> 0,
     sleeps |-> 0, fetches |-> 0, result |-> Pending]

\* `started` (or `deadline`) kept in a variable of the module instead of a
\* local of the call: every invocation reads what the last one wrote.
LocalsSharingStarted(js, i) ==
    [js[i] EXCEPT !.started =
        CHOOSE t \in {js[k].started : k \in Invocations} :
            \A k \in Invocations : js[k].started <= t]
\* What invocation i reads and writes in its poll loop: its own locals.
Locals(js, i) == js[i]

JobWithinBudget(j) ==
    IF j.flow = "parse" THEN ParseWithinBudget(j.now, j.started)
    ELSE ExtractWithinBudget(j.now, j.started)
\* The loop condition holds and the poll query is sent.
JobPollQuery(j) == [j EXCEPT !.queries = @ + 1, !.pc = "polling"]
\* The loop condition fails: the markdown loop throws the timeout, the
\* extraction loop goes on to llamaGetResult.
JobLoopExit(j) ==
    IF j.flow = "parse"
    THEN [j EXCEPT !.pc = "ended",
                   !.result = Rejected(Error("LlamaParse job timed out", <<>>), j.now)]
    ELSE [j EXCEPT !.pc = "fetching", !.fetches = @ + 1]
\* The poll query returns r after lat.
JobPollResponse(j, r, lat) ==
    LET o == IF j.flow = "parse" THEN ClassifyMarkdown(r) ELSE ClassifyStatus(r)
        t == j.now + lat
    IN  IF o.class = "Pending"
        THEN [j EXCEPT !.now = t, !.pc = "sleeping", !.sleeps = @ + 1]
        ELSE IF o.class = "Permanent"
        THEN [j EXCEPT !.now = t, !.pc = "ended", !.result = Rejected(o.error, t)]
        ELSE IF j.flow = "parse"
        THEN [j EXCEPT !.now = t, !.pc = "ended", !.result = Fulfilled(o.value, t)]
        ELSE [j EXCEPT !.now = t, !.pc = "fetching", !.fetches = @ + 1]
\* The interval timer fires.
JobSleepDone(j) ==
    [j EXCEPT !.pc = "loop",
              !.now = @ + (IF j.flow = "parse" THEN POLL_INTERVAL_MS
                           ELSE EXTRACT_INTERVAL_MS)]
\* llamaGetResult returns r after lat.
JobResultResponse(j, r, lat) ==
    LET o == LlamaGetResult(r)
        t == j.now + lat
    IN  [j EXCEPT !.now = t, !.pc = "ended",
                  !.result = IF o.throws THEN Rejected(o.error, t)
                             ELSE Fulfilled(StructuredOf(o.value), t)]

\* Two requests whose jobs were created one tick apart.
PairInit ==
    /\ \E f, g \in Flows : jobs = <<NewJob(f, EpochMs), NewJob(g, EpochMs + TickMs)>>
    /\ flow = "extract"
    /\ req = NoRequest
    /\ pc = "idle"
    /\ now = EpochMs
    /\ input = NoInput
    /\ fileId = Undefined
    /\ jobId = Undefined
    /\ started = 0
    /\ queries = 0
    /\ fetches = 0
    /\ sleeps = 0
    /\ submits = 0
    /\ seen = NothingSeen
    /\ result = Pending
    /\ thrown = NoError
    /\ inserted = FALSE
    /\ reply = NoReply
    /\ downloads = 0
    /\ row = NoRow
    /\ response = NoResponse
    /\ page = NoPage

PairPollQuery ==
    /\ \E i \in Invocations :
         LET j == Locals(jobs, i)
         IN  /\ j.pc = "loop" /\ JobWithinBudget(j)
             /\ jobs' = [jobs EXCEPT ![i] = JobPollQuery(j)]
    /\ UNCHANGED <<req, response, page>>
    /\ UNCHANGED server

PairLoopExit ==
    /\ \E i \in Invocations :
         LET j == Locals(jobs, i)
         IN  /\ j.pc = "loop" /\ ~JobWithinBudget(j)
             /\ jobs' = [jobs EXCEPT ![i] = JobLoopExit(j)]
    /\ UNCHANGED <<req, response, page>>
    /\ UNCHANGED server

PairPollResponse ==
    /\ \E i \in Invocations :
         LET j == Locals(jobs, i)
         IN  /\ j.pc = "polling"
             /\ \E lat \in PairLatencies,
                   r \in (IF j.flow = "parse" THEN PairMarkdownResponses
                          ELSE PairStatusResponses) :
                  jobs' = [jobs EXCEPT ![i] = JobPollResponse(j, r, lat)]
    /\ UNCHANGED <<req, response, page>>
    /\ UNCHANGED server

PairSleepDone ==
    /\ \E i \in Invocations :
         LET j == Locals(jobs, i)
         IN  /\ j.pc = "sleeping"
             /\ jobs' = [jobs EXCEPT ![i] = JobSleepDone(j)]
    /\ UNCHANGED <<req, response, page>>
    /\ UNCHANGED server

PairResultResponse ==
    /\ \E i \in Invocations :
         LET j == Locals(jobs, i)
         IN  /\ j.pc = "fetching"
             /\ \E lat \in PairLatencies, r \in PairResultResponses :
                  jobs' = [jobs EXCEPT ![i] = JobResultResponse(j, r, lat)]
    /\ UNCHANGED <<req, response, page>>
    /\ UNCHANGED server

PairNext ==
    \/ PairPollQuery
    \/ PairLoopExit
    \/ PairPollResponse
    \/ PairSleepDone
    \/ PairResultResponse

PairSpec == PairInit /\ [][PairNext]_vars
\* Every remote query returns, every timer fires and the handler runs on:
\* a step that can be taken is eventually taken.
\* The poll loops read nothing of the request: the runs are those of a text
\* request, a storage request and a request with neither.
FairRequests ==
    { Request(Str(<<"Jane">>), FALSE, FALSE), Request(Undefined, TRUE, TRUE),
      Request(Undefined, FALSE, FALSE) }
FairInit == Init /\ req \in FairRequests
FairSpec == FairInit /\ [][Next]_vars /\ WF_vars(Next)
\* ================================================================== claims
\* The deadline instant of the job.
DeadlineInstant ==
    started + (IF flow = "parse" THEN POLL_MAX_MS ELSE EXTRACT_MAX_MS)
Interval == IF flow = "parse" THEN POLL_INTERVAL_MS ELSE EXTRACT_INTERVAL_MS
Settled == result.kind # "pending"
IsTimedOut(e) == e.tag = "LlamaParse job timed out" \/ e.tag = "LlamaExtract job timed out"
\* The response to the latest poll query has been received.
Answered == seen.n >= 1 /\ queries = seen.n

\* The message of an error body as the spec reads it: the string under
\* "detail" of a JSON body, empty otherwise.
MessageOf(r) ==
    IF r.text = <<>> \/ r.text[1] # "{" \/ Len(r.text) < 6 \/ r.text[2] # "detail"
       \/ r.text[4] # Q
    THEN <<>>
    ELSE SubSeq(r.text, 5, Len(r.text) - 2)
HasPendingSubstring(r) ==
    \/ Includes(MessageOf(r), <<"Job", " ", "not", " ", "completed", " ", "yet">>)
    \/ Includes(MessageOf(r), <<"Result", " ", "for", " ", "Parsing", " ", "Job">>)
\* A Pending response of each protocol: the markdown poll's 400/404 with a
\* pending substring; the status poll's success whose JSON status is neither
\* SUCCESS nor FAILED.
IsPendingResponse(r) ==
    IF flow = "parse"
    THEN r.status \in {400, 404} /\ HasPendingSubstring(r)
    ELSE /\ r.status \in 200..299
         /\ JSONParse(r.text) # SyntaxError
         /\ Prop(JSONParse(r.text), "status") \notin {Str(<<"SUCCESS">>), Str(<<"FAILED">>)}

\* C1: one call of the poll loop produces exactly one terminal outcome; once
\* the outcome is there it never changes, no further query (poll or result
\* fetch) is issued and no further sleep is begun.
C1_OneTerminalOutcome ==
    [][Settled => /\ result' = result
                  /\ queries' = queries
                  /\ fetches' = fetches
                  /\ sleeps' = sleeps
                  /\ pc' \notin {"loop", "polling", "sleeping", "fetching"}]_vars
\* C1 witness: the loop ended after polling and the handler went on to respond.
C1_Witness == Settled /\ pc = "done" /\ seen.pendings >= 2 /\ reply.status # 0

\* C2 (as claimed): when every poll response was classified Pending, the call
\* ends with the TimedOut error, at or after the deadline instant, never with
\* a payload or another error.
C2_AllPendingEndsTimedOut ==
    (Settled /\ seen.n >= 1 /\ seen.pendings = seen.n)
        => /\ result.kind = "rejected"
           /\ IsTimedOut(result.error)
           /\ result.at >= DeadlineInstant

\* C3: a poll response with status 400 or 404 whose message has no pending
\* substring ends the loop with an error on that response (no sleep, no
\* further query); the loop waits or queries again only after a Pending
\* response.
C3_PermanentAtOnce ==
    /\ (Answered /\ seen.lastResp.status \in {400, 404}
            /\ ~HasPendingSubstring(seen.lastResp))
        => /\ result.kind = "rejected"
           /\ ~IsTimedOut(result.error)
           /\ pc \in {"catch", "done"}
           /\ sleeps = seen.n - 1
    /\ (seen.n >= 1 /\ pc \in {"sleeping", "loop", "polling"})
        => IsPendingResponse(seen.lastResp)
\* C3 witness: 400 {"detail":"bad input"} arrived as the third response.
C3_Witness ==
    /\ Answered /\ seen.n = 3 /\ seen.lastResp = Http(400, TxtBadInput)
    /\ result.kind = "rejected" /\ flow = "parse"


\* C4 (as claimed): when the first poll response is Ready, the call makes
\* exactly one remote query in total, begins no wait and returns the payload.
C4_ReadyFirstOneQuery ==
    (Settled /\ seen.first = "Ready")
        => queries + fetches = 1 /\ sleeps = 0 /\ result.kind = "fulfilled"
\* C4 (amended): when the first poll response is Ready, the loop makes exactly
\* one poll query and begins no wait; the markdown poll then returns the
\* payload of that response with no other query, the extraction flow issues
\* exactly one result fetch after it.
C4_ReadyFirstOnePoll ==
    (seen.first = "Ready" /\ Answered)
        => /\ queries = 1 /\ sleeps = 0
           /\ pc \notin {"loop", "polling", "sleeping"}
           /\ flow = "parse" => (fetches = 0 /\ result.kind = "fulfilled"
                                 /\ result.at = now)
           /\ flow = "extract" => fetches = 1
\* C4 witness: the first response was Ready and the call has ended.
C4_Witness == seen.first = "Ready" /\ Settled /\ pc = "done" /\ flow = "parse"

\* C5 (as claimed): no query for the job, status or result, is started at a
\* time at or past the deadline instant.  (While a query is in flight the
\* clock still shows the time it was started.)
C5_NoQueryPastDeadline ==
    pc \in {"polling", "fetching"} => now < DeadlineInstant

\* C6: after k Pending responses, each 404 with a detail containing "Result
\* for Parsing Job", and then HTTP 200 with {"markdown":"Hello"}, the markdown
\* poll has issued k+1 queries, begun k waits of one interval each, and returns
\* "Hello"; while only such Pending responses have arrived the call has not
\* failed.
C6_PendingThenMarkdown ==
    /\ (flow = "parse" /\ Answered /\ seen.onlyNotFound
            /\ seen.lastResp = Http(200, TxtMarkdownJson))
        => /\ result = Fulfilled(Str(<<"Hello">>), now)
           /\ queries = seen.pendings + 1
           /\ sleeps = seen.pendings
           /\ now - started >= seen.pendings * POLL_INTERVAL_MS
           /\ now - started <= seen.pendings * POLL_INTERVAL_MS
                               + queries * MaxLatencyTicks * TickMs
    /\ (flow = "parse" /\ Answered /\ seen.onlyNotFound
            /\ seen.lastResp = Http(404, TxtResultNotFound))
        => /\ result.kind = "pending" \/ IsTimedOut(result.error)
           /\ sleeps = seen.n
\* C6 witness: the scenario of the spec, two Pending 404s and then the payload.
C6_Witness ==
    /\ flow = "parse" /\ seen.onlyNotFound /\ seen.pendings = 2 /\ seen.n = 3
    /\ seen.lastResp = Http(200, TxtMarkdownJson) /\ result.kind = "fulfilled"

\* C7 (as claimed): when every poll answered 202/Running, the call ends with
\* TimedOut at an elapsed time between the deadline and the deadline plus one
\* interval, and returns no payload.
C7_RunningEndsTimedOut ==
    (Settled /\ seen.n >= 1 /\ seen.onlyRunning)
        => /\ result.kind = "rejected" /\ IsTimedOut(result.error)
           /\ result.at >= DeadlineInstant
           /\ result.at <= DeadlineInstant + Interval

\* C8: the observed state of the job.
JobState ==
    IF started = 0 THEN "NoJob"
    ELSE IF result.kind = "fulfilled" THEN "Succeeded"
    ELSE IF result.kind = "rejected"
         THEN IF IsTimedOut(result.error) THEN "TimedOut" ELSE "Failed"
    ELSE IF queries = 0 THEN "Submitted"
    ELSE "Running"
JobTransitions ==
    { <<"NoJob", "Submitted">>, <<"Submitted", "Running">>, <<"Running", "Running">>,
      <<"Running", "Succeeded">>, <<"Running", "Failed">>, <<"Running", "TimedOut">> }
\* C8: the job state moves only Submitted->Running, Running->Running,
\* Running->Succeeded, Running->Failed, Running->TimedOut, and never leaves
\* Succeeded, Failed or TimedOut.
C8_JobStateTransitions ==
    [][JobState' = JobState \/ <<JobState, JobState'>> \in JobTransitions]_vars
\* C8 witness: a job that timed out after polling, the handler having replied.
C8_Witness == JobState = "TimedOut" /\ pc = "done" /\ queries >= 2

\* C9 (as claimed): a non-success status on a submission request ends the
\* request with an error carrying at most the first 400 characters of the
\* response body, without another submission request and without a poll.
SubmissionFailed ==
    /\ result.kind = "rejected"
    /\ result.error.tag \in {"LlamaParse upload failed: ", "LlamaExtract upload failed: ",
                             "LlamaExtract job create failed: "}
C9_SubmissionErrorBounded ==
    SubmissionFailed
        => /\ Len(result.error.text) <= ERR_BODY_MAX
           /\ queries = 0 /\ fetches = 0
           /\ pc \in {"catch", "done"}
           /\ submits = (IF result.error.tag = "LlamaExtract job create failed: "
                         THEN 2 ELSE 1)

\* C10 (as claimed): a poll is never issued with an absent job identifier; a
\* successful submission response without an identifier is an error.
C10_NoPollWithoutJobId ==
    (queries >= 1 \/ fetches >= 1) => jobId.vt = "string"

\* C11: a markdown-poll response with a success status (200..299) is always
\* Ready: the call returns at once, with the string under "markdown" when the
\* body is JSON holding such a string, and with the raw body text, unchanged,
\* otherwise (body not JSON, JSON null, JSON without a string markdown).
HasStringMarkdown(text) ==
    /\ Len(text) >= 6 /\ text[1] = "{" /\ text[2] = "markdown" /\ text[3] = ":"
    /\ text[4] = Q /\ text[Len(text) - 1] = Q /\ text[Len(text)] = "}"
    /\ \A i \in 5..(Len(text) - 2) : text[i] # Q
C11_SuccessIsReady ==
    (flow = "parse" /\ Answered /\ seen.lastResp.status \in 200..299)
        => /\ result.kind = "fulfilled"
           /\ pc \in {"insert", "done", "catch"}
           /\ sleeps = seen.n - 1
           /\ result.value =
                 (IF HasStringMarkdown(seen.lastResp.text)
                  THEN Str(SubSeq(seen.lastResp.text, 5, Len(seen.lastResp.text) - 2))
                  ELSE Str(seen.lastResp.text))
\* C11 witness: 202 with a body that is JSON without a markdown field was
\* returned as it came, after one Pending response.
C11_Witness ==
    /\ flow = "parse" /\ Answered /\ seen.n = 2
    /\ seen.lastResp = Http(202, TxtRunning)
    /\ result = Fulfilled(Str(TxtRunning), now)

\* C12: a poll response whose status is neither a success status nor 400 or
\* 404 ends the loop with an error on that response, whatever the body says
\* (a pending substring included): no wait is begun, no further poll and no
\* result fetch is issued, and the error is not the timeout.
C12_OtherStatusPermanent ==
    (Answered /\ seen.lastResp # NetworkFailure
        /\ seen.lastResp.status \notin (200..299) \cup {400, 404})
        => /\ result.kind = "rejected"
           /\ result.error.tag \in {"LlamaParse poll failed: ",
                                    "LlamaExtract job status failed: "}
           /\ pc \in {"catch", "done"}
           /\ sleeps = seen.n - 1
           /\ fetches = 0
\* C12 witness: 500 {"detail":"Job not completed yet"} arrived as the second
\* response of the markdown poll.
C12_Witness ==
    /\ Answered /\ seen.n = 2 /\ seen.lastResp = Http(500, TxtNotCompleted)
    /\ result.kind = "rejected" /\ pc = "done"

\* C13: a poll query whose fetch fails without an HTTP response ends the loop
\* with that failure as the error; no wait is begun and the query is not
\* issued again, also when the deadline instant has not been reached.
C13_TransportFailureFatal ==
    (Answered /\ seen.lastResp = NetworkFailure)
        => /\ result.kind = "rejected"
           /\ result.error = FetchFailed
           /\ pc \in {"catch", "done"}
           /\ sleeps = seen.n - 1
           /\ fetches = 0
\* C13 witness: the second poll query failed well before the deadline instant.
C13_Witness ==
    /\ Answered /\ seen.n = 2 /\ seen.lastResp = NetworkFailure
    /\ result.kind = "rejected" /\ result.at < DeadlineInstant /\ pc = "done"
C18_ReplyErrorBounded ==
    (pc = "done" /\ reply.status = 400) => Len(reply.error.text) <= ERR_BODY_MAX

\* C20: the start time of the budget is taken once, when the submission has
\* returned and the loop begins; no poll, wait or slow query changes it, and
\* every poll query is issued before that one deadline instant.
C20_DeadlineFixedOnce ==
    [][/\ (pc \in {"submit", "create"} /\ pc' = "loop") => started' = now'
       /\ pc \notin {"submit", "create"} => started' = started
       /\ queries' # queries => now < DeadlineInstant']_vars
\* C20 witness: after slow queries and waits the budget ran out at the
\* deadline instant computed at the start.
C20_Witness ==
    /\ pc = "done" /\ seen.n >= 2 /\ sleeps >= 2 /\ started = EpochMs
    /\ now >= DeadlineInstant /\ now > EpochMs + sleeps * Interval
    /\ result.kind = "rejected" /\ IsTimedOut(result.error)
\* C19: provided every query returns and every wait ends, a call that entered
\* the poll loop eventually has its outcome (a payload or an error), also when
\* every response is Pending; the k-th poll query is issued no earlier than
\* k-1 intervals after the start and before the deadline instant, so the
\* number of queries is bounded.
C19_LoopTerminates ==
    /\ (pc = "loop") ~> Settled
    /\ [](queries >= 1 => (queries - 1) * Interval < DeadlineInstant - started)
\* C19 witness: the call ended after every one of its responses, more than
\* two, was Pending.
C19_Witness ==
    /\ Settled /\ pc = "done" /\ seen.n >= 3 /\ seen.pendings = seen.n
    /\ now >= DeadlineInstant
\* Vocabulary of the claims on the page's normalisation.  A string wraps the
\* markdown when it is the JSON text of {markdown: inner}; showResult reached
\* extractMarkdown when it neither threw nor rendered the structured grid.
Inners == WebTexts \cup {<<"Jane">>}
WrapsMarkdown(s) == \E inner \in Inners : s = Wrap("markdown", inner)
ReachedMarkdown == page.called /\ ~page.threw /\ ~page.grid
HasMarkdown(data) ==
    \/ data.parsed.t = "object" /\ data.parsed.markdown.vt = "string"
    \/ data.parsed.t = "string" /\ WrapsMarkdown(data.parsed.s)
HasStructured(data) ==
    /\ data.parsed.t = "object" /\ data.parsed.structured.t = "object"
    /\ \A i \in 1..Len(data.parsed.structured.experience) :
          data.parsed.structured.experience[i] # "null"
Garbage(data) == ~HasMarkdown(data) /\ ~HasStructured(data)

\* C14: when parsed.markdown of the response is a plain markdown string (one
\* that does not wrap another), extractMarkdown returns that string unchanged,
\* extracting again from a response holding the returned string gives the
\* same string, and the page shows it (when not empty) with the success
\* status.
C14_PlainMarkdownUnchanged ==
    (ReachedMarkdown /\ response.parsed.t = "object"
        /\ response.parsed.markdown.vt = "string"
        /\ ~WrapsMarkdown(response.parsed.markdown.val))
        => /\ page.markdown = response.parsed.markdown
           /\ ExtractMarkdown(WResult(PObj(page.markdown, SNone))) = page.markdown
           /\ page.markdown.val # <<>> => page.text = page.markdown.val
           /\ page.tone = "success"
\* C14 witness: a markdown string with quotes in it was shown as it came.
C14_Witness ==
    /\ page.stage = "done" /\ response = WResult(PObj(Str(MdQuoted), SNone))
    /\ page.markdown = Str(MdQuoted) /\ page.text = MdQuoted

\* C15: when parsed, or parsed.markdown, is the JSON text of {markdown: inner},
\* extractMarkdown returns inner, parsed once: an inner string that is itself
\* such a JSON text is returned as that text.  When parsed is the JSON text of
\* {structured: inner}, extractStructured returns inner.
C15_WrappedParsedOnce ==
    \A inner \in Inners :
        /\ (ReachedMarkdown
              /\ \/ response.parsed = PStr(Wrap("markdown", inner))
                 \/ /\ response.parsed.t = "object"
                    /\ response.parsed.markdown = Str(Wrap("markdown", inner)))
            => page.markdown = Str(inner)
        /\ (page.called /\ inner # <<>>
              /\ response.parsed = PStr(Wrap("structured", inner)))
            => page.structured = SText(inner)
\* C15 witness: parsed was a string wrapping a string that wraps the markdown;
\* the page shows the inner wrapping text.
C15_Witness ==
    /\ page.stage = "done"
    /\ response = WResult(PStr(Wrap("markdown", Wrap("markdown", MdPlain))))
    /\ page.markdown = Str(Wrap("markdown", MdPlain))
    /\ page.text = Wrap("markdown", MdPlain)

\* C16 (as claimed): for a response the function returned that has no expected
\* shape, showResult does not throw, the page shows the response itself (as
\* JSON) and the run ends with the success status.
C16_GarbageShownRaw ==
    (page.stage = "done" /\ page.called /\ Garbage(response))
        => /\ ~page.threw
           /\ page.tone = "success"
           /\ page.text = FormatJson(response)

\* The request has no text, an empty one, or one of white space only.
TextBlank ==
    \/ req.text.vt # "string"
    \/ /\ \A i \in 1..Len(req.text.val) : req.text.val[i] = " "
       /\ req.pad = NoPad
\* The message loadResumeInput refuses a request with.
ProvideEither == Error("Provide either text or (bucket and filePath)", <<>>)

InputFromText ==
    /\ input.buffer = req.text.val /\ input.pad = req.pad
    /\ input.filename = "resume.txt" /\ input.contentType = "text/plain"
\* The input was built from a file of the bucket.
InputFromStorage ==
    \E file \in StoredFiles :
        /\ input.buffer = file.buffer /\ input.contentType = file.type
        /\ input.filename = "resume." \o file.ext

\* C23 (as claimed): if the request carries a text field, the input is built
\* from that text and no storage download is performed, whatever bucket and
\* filePath are.
C23_TextSkipsDownload ==
    (req # NoRequest /\ req.text.vt = "string" /\ pc # "load")
        => downloads = 0 /\ (input # NoInput => InputFromText)
\* C23 (amended): if the request carries a text that is not empty after
\* trimming, the input is built from that text and no storage download is
\* performed, whatever bucket and filePath are.  A text that is empty or of
\* white space only is ignored: with bucket and filePath the file is
\* downloaded (once) and the input is built from it.
C23_UsableTextSkipsDownload ==
    (req # NoRequest /\ pc # "load")
        => /\ ~TextBlank
                => downloads = 0 /\ input # NoInput /\ InputFromText
           /\ (TextBlank /\ req.bucket /\ req.filePath)
                => /\ downloads = 1
                   /\ input # NoInput => InputFromStorage
                   /\ input = NoInput => thrown.tag = "Unable to download file: "
\* C23 witness: a request with a text and with bucket and filePath was
\* answered 200 without a download, the job submitted from the text.
C23_Witness ==
    /\ pc = "done" /\ req = Request(Str(<<"Jane">>), TRUE, TRUE)
    /\ downloads = 0 /\ InputFromText /\ submits > 0 /\ reply.status = 200

\* The types of file the function is documented to take.
AcceptedTypes == {"application/pdf", "text/plain"}

\* C25 (as claimed): a storage file whose type is neither PDF nor text is
\* rejected: the request ends with an error and no job is submitted for it.
C25_OtherTypesRejected ==
    (input # NoInput /\ input.contentType \notin AcceptedTypes)
        => /\ submits = 0
           /\ pc = "done" => reply.status = 400

\* The raw text of the request being stored: the text of the input
\* (markdown function) or the text member of the request (extraction
\* function).
RawText ==
    IF flow = "parse" THEN Text(input.buffer, input.pad)
    ELSE Text(req.text.val, req.pad)
\* The first n characters of a text.
FirstChars(x, n) == SliceChars(x, n)

\* C24 (as claimed): the raw text written to the resumes table never exceeds
\* MAX_TEXT_STORE (50000) characters: a longer text is stored as its first
\* 50000 characters, a shorter one is stored unchanged.
C24_RawTextCut ==
    (inserted /\ row.t = "string")
        => /\ Chars(row) <= MAX_TEXT_STORE
           /\ Chars(RawText) > MAX_TEXT_STORE => row = FirstChars(RawText, MAX_TEXT_STORE)
           /\ Chars(RawText) <= MAX_TEXT_STORE => row = RawText

PollSucceeded ==
    /\ seen.n >= 1
    /\ seen.lastResp.status \in 200..299
    /\ flow = "extract" => seen.lastResp.text = TxtSuccess
\* The file upload of the extraction function failed.
UploadFailed ==
    /\ flow = "extract" /\ result.kind = "rejected"
    /\ result.error.tag = "LlamaExtract upload failed: "

\* C26 (as claimed): the steps of a request run in the order submission,
\* poll loop, persistence and response: no poll query is issued before the
\* submission returned a job identifier, job creation is not attempted when
\* the file upload failed, and no row is inserted and no parsed result is
\* returned unless the poll phase ended in success.
C26_StepsInOrder ==
    /\ queries > 0 => submits > 0 /\ jobId.vt = "string"
    /\ UploadFailed => submits = 1 /\ queries = 0
    /\ inserted => PollSucceeded
    /\ (pc = "done" /\ reply.status = 200) => PollSucceeded

\* What a status response reports of the job.
ReportsFailed(r) == r.status \in 200..299 /\ r.text = TxtFailed
ReportsSuccess(r) == r.status \in 200..299 /\ r.text = TxtSuccess
ReportsOther(r) == r.status \in 200..299 /\ r.text \in {TxtRunning, TxtNull}
\* The last status response, the loop having acted on it.
LastStatus(P(_)) == flow = "extract" /\ seen.n >= 1 /\ P(seen.lastResp)
\* A step of the extraction poll loop.
C27_Step ==
    flow = "extract" =>
        /\ pc = "polling"
            => /\ seen'.n = seen.n + 1 /\ queries' = queries
               /\ ReportsFailed(seen'.lastResp)
                    => /\ pc' = "catch" /\ thrown'.tag = "LlamaExtract job failed: "
                       /\ result' = Rejected(thrown', now')
                       /\ fetches' = fetches /\ sleeps' = sleeps
               /\ ReportsSuccess(seen'.lastResp)
                    => pc' = "fetching" /\ fetches' = fetches + 1 /\ sleeps' = sleeps
               /\ ReportsOther(seen'.lastResp)
                    => pc' = "sleeping" /\ sleeps' = sleeps + 1 /\ fetches' = fetches
        /\ pc = "sleeping" => pc' = "loop" /\ now' = now + 3000 /\ queries' = queries
        /\ (pc = "loop" /\ now < DeadlineInstant)
            => pc' = "polling" /\ queries' = queries + 1 /\ now' = now
        /\ queries' # queries => pc = "loop"
        /\ fetches' # fetches => fetches = 0
\* C27: in the extraction flow a poll reporting FAILED ends the call with an
\* error at once, with no further poll and no result fetch; a poll reporting
\* SUCCESS ends the polling and is followed by exactly one result fetch; any
\* other status is followed by one wait of 3000 ms and, if the deadline is not
\* reached then, by another status poll.
C27_StatusDecides ==
    /\ [](LastStatus(ReportsFailed)
            => /\ queries = seen.n /\ fetches = 0 /\ sleeps = seen.n - 1
               /\ pc \in {"catch", "done"}
               /\ thrown.tag = "LlamaExtract job failed: "
               /\ pc = "done" => reply.status = 400)
    /\ [](LastStatus(ReportsSuccess)
            => /\ queries = seen.n /\ fetches = 1 /\ sleeps = seen.n - 1
               /\ pc \in {"fetching", "insert", "catch", "done"})
    /\ [](LastStatus(ReportsOther)
            => /\ sleeps = seen.n
               /\ pc = "sleeping" => queries = seen.n /\ fetches = 0)
    /\ [][C27_Step]_vars
\* C27 witness: a job reported RUNNING, then after the wait FAILED: the call
\* ended with the error after two polls, one wait and no result fetch.
C27_Witness ==
    /\ LastStatus(ReportsFailed) /\ seen.n = 2 /\ seen.pendings = 1
    /\ queries = 2 /\ sleeps = 1 /\ fetches = 0 /\ pc = "done" /\ reply.status = 400
    /\ now >= started + 3000

\* Remote poll queries whose response has not come yet.
Outstanding == queries - seen.n
\* A step that starts a poll query, and the wait before it.
C21_Step ==
    /\ queries' # queries
        => /\ queries' = queries + 1 /\ Outstanding = 0 /\ pc = "loop"
           /\ sleeps = queries /\ seen.pendings = queries
           /\ queries > 0
                => /\ flow = "parse" => IsPendingResponse(seen.lastResp)
                   /\ flow = "extract" => ReportsOther(seen.lastResp)
                   /\ now >= started + queries * Interval
    /\ pc = "sleeping"
        => pc' = "loop" /\ now' = now + Interval /\ queries' = queries
    /\ seen'.n # seen.n => seen'.n = seen.n + 1 /\ Outstanding = 1
\* C21: the poll attempts of a call are strictly sequential: at most one
\* remote query is outstanding at any time, and a new query is started only
\* after the response to the one before was classified Pending and the
\* interval wait that follows it completed.
C21_PollsSequential ==
    /\ [](Outstanding \in {0, 1})
    /\ []((Outstanding = 1) <=> (pc = "polling"))
    /\ [](pc \in {"sleeping", "fetching"} => Outstanding = 0)
    /\ [][C21_Step]_vars
\* C21 witness: the third query of a call is outstanding, the two before it
\* answered Pending and each followed by its wait.
C21_Witness ==
    /\ queries = 3 /\ seen.n = 2 /\ seen.pendings = 2 /\ sleeps = 2 /\ pc = "polling"
    /\ now >= started + 2 * Interval

Classes == {"Ready", "Pending", "Permanent"}
\* What the loop did with the classified response.
Outcome(class) ==
    CASE class = "Ready" -> pc = "insert" /\ result.kind = "fulfilled" /\ sleeps = 0
      [] class = "Pending" -> pc = "sleeping" /\ result.kind = "pending" /\ sleeps = 1
      [] class = "Permanent" -> pc = "catch" /\ result.kind = "rejected" /\ sleeps = 0
\* The class of a response by its status and its body.
ClassOf(r) ==
    IF r.status \in 200..299 THEN "Ready"
    ELSE IF r.status \in {400, 404} /\ HasPendingSubstring(r) THEN "Pending"
    ELSE "Permanent"
\* C28: the classification of a markdown-poll response is total and
\* deterministic: every pair of status and body is given exactly one of
\* Ready, Pending and Permanent, the one its status and body determine, and
\* Pending only with status 400 or 404 and a JSON body whose detail is a
\* string containing "Job not completed yet" or "Result for Parsing Job".
C28_ClassificationTotal ==
    seen.n = 1
        => /\ Cardinality({c \in Classes : Outcome(c)}) = 1
           /\ Outcome(ClassOf(seen.lastResp))
           /\ seen.first = ClassOf(seen.lastResp)
           /\ Outcome("Pending")
                => /\ seen.lastResp.status \in {400, 404}
                   /\ HasPendingSubstring(seen.lastResp)
\* C28 witness: status 403 with the body {"detail":"Job not completed yet"}
\* was classified Permanent.
C28_Witness ==
    /\ seen.n = 1 /\ seen.lastResp = Http(403, TxtNotCompleted)
    /\ Outcome("Permanent")

\* The records one invocation's loop can come to in one step, from its own
\* locals, its own response and its own clock.
OwnSteps(j) ==
    CASE j.pc = "loop" ->
            {IF JobWithinBudget(j) THEN JobPollQuery(j) ELSE JobLoopExit(j)}
      [] j.pc = "polling" ->
            { JobPollResponse(j, r, lat) :
                r \in (IF j.flow = "parse" THEN PairMarkdownResponses
                       ELSE PairStatusResponses),
                lat \in PairLatencies }
      [] j.pc = "sleeping" -> {JobSleepDone(j)}
      [] j.pc = "fetching" ->
            { JobResultResponse(j, r, lat) :
                r \in PairResultResponses, lat \in PairLatencies }
      [] OTHER -> {}
\* The budget and the interval of a job.
BudgetOf(j) == 60000
IntervalOf(j) == 3000
\* What a job's queries, sleeps and outcome are by its own clock.
OwnHistory(j) ==
    /\ j.queries \in {j.sleeps, j.sleeps + 1}
    /\ j.now >= j.started
                + (j.sleeps - (IF j.pc = "sleeping" THEN 1 ELSE 0)) * IntervalOf(j)
    /\ j.pc = "polling" => j.now < j.started + BudgetOf(j)
    /\ (j.result.kind = "rejected" /\ IsTimedOut(j.result.error))
            => j.now >= j.started + BudgetOf(j) /\ j.queries = j.sleeps
    /\ (j.flow = "parse" /\ j.pc = "ended" /\ j.now < j.started + BudgetOf(j))
            => ~IsTimedOut(j.result.error) /\ j.queries = j.sleeps + 1
PassesInputCheck ==
    page.file # "none" \/ \E i \in 1..Len(page.input) : page.input[i] # " "
\* An upload or a function call is awaited.
InFlight == page.stage \in {"uploading", "calling"}
\* The error messages a run of handleSubmit can catch.
CaughtMessages == UploadErrors \cup CallErrors \cup {NullTitle}
\* A step of handleSubmit and the submit button.
C31_Step ==
    /\ (page.stage = "idle" /\ PassesInputCheck)
        => /\ page'.stage \in {"uploading", "calling"} /\ page'.disabled
           /\ page'.tone = "info" /\ ~page'.called
    /\ (page.stage = "idle" /\ page'.stage = "uploading") => req' = req
    /\ req' # req => page'.disabled /\ page'.stage = "calling"
    /\ InFlight => page'.stage \in {"calling", "done"}
    /\ page'.disabled # page.disabled => (page'.disabled <=> page.stage = "idle")
\* C31: in the web form every handleSubmit that passes the input check
\* disables the submit button before any upload or function call and enables
\* it again when the handler finishes, on success and on every error path;
\* when it finishes the tone of the status is success, with the result shown,
\* or error, with the error shown, and never info.
C31_ButtonAndTone ==
    /\ [](InFlight => page.disabled /\ page.tone = "info" /\ PassesInputCheck)
    /\ []((page.stage = "done" /\ PassesInputCheck)
            => /\ ~page.disabled
               /\ page.tone \in {"success", "error"}
               /\ page.tone = "success"
                    => /\ page.called /\ ~page.threw
                       /\ page.text = ShowResult(response).text
               /\ page.tone = "error"
                    => \E msg \in CaughtMessages :
                          page.text = FormatJson(ErrorResult(msg)))
    /\ [][C31_Step]_vars
\* C31 witness: the upload of the chosen file failed; the error is shown with
\* the error tone, the button is enabled again and no function call was made.
C31_Witness ==
    /\ page.stage = "done" /\ page.file # "none" /\ ~page.called /\ ~page.disabled
    /\ page.tone = "error"
    /\ page.text = FormatJson(ErrorResult(<<"The resource already exists">>))
    /\ req = NoRequest
====
